---- MODULE Spec2Model ----
(***************************************************************************)
(* A model of the Particle Plumber (aquamarine/src/plumber.rs): admission  *)
(* of particles into per-(signature, scope) actors, dispatch to a bounded  *)
(* pool of interpreter VMs, routing of effects and cleanup of expired      *)
(* actors.  Actor, VmPool, Deadline and PeerScopes are collaborators whose *)
(* code is not part of the sources at hand; they are modelled from the     *)
(* natural-language specification (sections 4.1 - 4.3).                    *)
(*                                                                         *)
(* The second part models the Kademlia discovery behaviour                 *)
(* (crates/kademlia/src/behaviour.rs): peer discovery with waiters queued  *)
(* per peer, the periodic sweep with its time-outs and bans, and the       *)
(* bootstrap, around the libp2p Kademlia behaviour, which is a library and *)
(* appears as the environment of the wrapper.                              *)
(***************************************************************************)
EXTENDS Integers, Sequences, FiniteSets, TLC

\* ------------------------------------------------------------------ bounds
\* ingest() calls from outside are only made while fewer events are buffered.
MaxEvents == 1
\* Particles waiting in mailboxes plus local hops still to be replayed.
MaxQueued == 2
\* Actors in the table plus the actors that hops still to be replayed may create.
MaxActors == 2
\* VmPoolConfig.pool_size
PoolSize == 2

\* plumber.rs:63 has 1024; scaled down so that a cleanup pass can hit the cap
MAX_CLEANUP_KEYS_SIZE == 1

\* ------------------------------------------------------------- the universe
\* PeerScope: Host, or WorkerId(w) written as the worker id itself
Host == "Host"
Workers == {"w1"}
PeerScope == {Host} \cup Workers

\* Peer ids: the host's peer id, a management peer, the worker's peer id
\* (a worker's peer id is its worker id, plumber.rs:211) and a remote peer.
HostPeer == "host"
ManagementPeer == "mgr"
RemotePeer == "r1"
Peers == {HostPeer, ManagementPeer, RemotePeer} \cup Workers

\* Signatures.  A signature covers the id, the initiator, the timestamp and
\* the ttl, so there is one particle that verifies per signature: particle 1
\* comes from a peer with no privilege on this node, particle 2 from the
\* management peer, particle 3 from the host itself.
Signatures == {1, 2, 3}

InitPeerOf(sig) == CASE sig = 1 -> RemotePeer
                     [] sig = 2 -> ManagementPeer
                     [] OTHER   -> HostPeer

TimestampOf(sig) == IF sig = 2 THEN 1 ELSE 0

TtlOf(sig) == IF sig = 1 THEN 2 ELSE 1

\* particle(ts, ttl) of the tests, with the fields ingest reads.  `valid` is
\* the outcome of Particle::verify().
Particle(sig, valid) ==
    [id |-> sig, signature |-> sig, init_peer_id |-> InitPeerOf(sig),
     timestamp |-> TimestampOf(sig), ttl |-> TtlOf(sig), valid |-> valid]

\* The particles that verify, and one whose signature does not.
Particles == { Particle(sig, TRUE) : sig \in Signatures } \cup { Particle(1, FALSE) }

\* The clock stops once every particle has expired.
Horizon == CHOOSE t \in { TimestampOf(sig) + TtlOf(sig) : sig \in Signatures } :
              \A sig \in Signatures : TimestampOf(sig) + TtlOf(sig) <= t

\* The next_peers an execution may report.
NextPeerLists ==
    { <<>>, <<HostPeer, "w1">>, <<"w1", RemotePeer>> }

ActorKey(signature, peer_scope) ==
    [signature |-> signature, peer_scope |-> peer_scope]

ActorKeys == { ActorKey(s, sc) : s \in Signatures, sc \in PeerScope }

VmIds == 0 .. (PoolSize - 1)

VARIABLES
    now,            \* now_ms()
    events,         \* Plumber.events
    actors,         \* Plumber.actors: a function on the keys in the table
    vm_pool,        \* Plumber.vm_pool: [runtimes, creating]
    cleanup_future, \* Plumber.cleanup_future: None or the pending batch
    last            \* history: what the last poll did

vars == <<now, events, actors, vm_pool, cleanup_future, last>>

\* The Kademlia discovery behaviour (crates/kademlia/src/behaviour.rs) is a
\* component of its own; its state is kept apart from the plumber's.
VARIABLES
    instant,        \* Instant::now()
    config,         \* Kademlia.config: query_timeout, peer_fail_threshold, ban_cooldown
    kademlia,       \* Kademlia.kademlia: the libp2p behaviour, [routing, issued]
    queries,        \* Kademlia.queries: a function on the registered query ids
    pending_peers,  \* Kademlia.pending_peers: a function on the peers with waiters
    failed_peers,   \* Kademlia.failed_peers: a function on the peers with a record
    timer,          \* Kademlia.timer: the instant at which the Delay fires
    outlets,        \* the reply channels handed to the behaviour, with what was sent
    klast,          \* history: what the last step of the behaviour was
    banned_since    \* history: the instant at which each banned peer was banned

kad_vars == <<instant, config, kademlia, queries, pending_peers, failed_peers,
              timer, outlets, klast, banned_since>>

\* The worker registry (Arc<Workers>, KeyStorage) is shared with the rest of
\* the node; an operation of the plumber reads it as it is at that time.
\* A registry W is [registered, active]: the workers that have a key pair, a
\* deal id and a runtime handle, and those of them that are active.
Registries ==
    { [registered |-> reg, active |-> act] :
        reg \in SUBSET Workers, act \in SUBSET Workers } 

WorkerRegistries == { W \in Registries : W.active \subseteq W.registered }

NoWorkers == [registered |-> {}, active |-> {}]

\* ---------------------------------------------------------------- helpers
\* Option<T> is a sequence of length 0 (None) or 1 (Some(x)).
NoneOpt == <<>>
Some(x) == <<x>>
IsSome(o) == Len(o) = 1
Unwrap(o) == o[1]

SeqToSet(s) == { s[i] : i \in 1 .. Len(s) }

\* All orders in which a hash table holding the keys `S` can be iterated.
RECURSIVE Orders(_)
Orders(S) ==
    IF S = {} THEN { <<>> }
    ELSE UNION { { <<x>> \o o : o \in Orders(S \ {x}) } : x \in S }

RECURSIVE Flatten(_)
Flatten(ss) == IF ss = <<>> THEN <<>> ELSE Head(ss) \o Flatten(Tail(ss))

Take(s, n) == SubSeq(s, 1, IF Len(s) < n THEN Len(s) ELSE n)

\* ---------------------------------------------------- Deadline (spec 4.1)
Deadline(particle) == [timestamp |-> particle.timestamp, ttl |-> particle.ttl]

is_expired(deadline, now_ms) == now_ms >= deadline.timestamp + deadline.ttl

\* ------------------------------------------------- PeerScopes and Workers
is_management(peer) == peer = ManagementPeer
is_host(peer) == peer = HostPeer
is_worker_active(W, worker_id) == worker_id \in W.active

\* PeerScopes::scope: Ok(scope) for the host and for the workers of this
\* node, Err for every other peer.  Some(scope) stands for Ok(scope).
scope(W, peer) ==
    IF peer = HostPeer THEN Some(Host)
    ELSE IF peer \in W.registered THEN Some(peer)
    ELSE NoneOpt

\* ------------------------------------------------------- Actor (spec 4.3)
\* Actor::new: empty mailbox, no execution in flight, the deadline of the
\* particle it is created for.
ActorNew(particle) ==
    [mailbox |-> <<>>, future |-> NoneOpt, deadline |-> Deadline(particle),
     function |-> NoneOpt]

ActorIngest(actor, particle) ==
    [actor EXCEPT !.mailbox = Append(@, particle)]

\* Actor::set_function installs the handler, or replaces the one installed.
set_function(actor, function) == [actor EXCEPT !.function = Some(function)]

ActorIsExpired(actor, now_ms) == is_expired(actor.deadline, now_ms)
ActorIsExecuting(actor) == IsSome(actor.future)
ActorMailboxSize(actor) == Len(actor.mailbox)

\* --------------------------------------------------------------- events
ParticleExpired(particle_id) ==
    [type |-> "ParticleExpired", particle_id |-> particle_id, next_peers |-> <<>>]
SignatureVerificationFailed(particle_id) ==
    [type |-> "SignatureVerificationFailed", particle_id |-> particle_id,
     next_peers |-> <<>>]
RemoteRoutingEffects(particle, next_peers) ==
    [type |-> "RemoteRoutingEffects", particle_id |-> particle.id,
     next_peers |-> next_peers]

\* variant: the deadline check compares with > instead of >=
ExpiredAtIngestStrict(particle) == now > particle.timestamp + particle.ttl

\* variant: ingest without the deadline check of plumber.rs:116-124
ExpiredAtIngestNever(particle) == FALSE

\* ------------------------------------------------------- Plumber::ingest
\* plumber.rs:116-117
ExpiredAtIngest(particle) == is_expired(Deadline(particle), now)

\* variant: ingest without the signature check of plumber.rs:126-134
VerifyFailsNever(particle) == FALSE

\* plumber.rs:126
VerifyFails(particle) == ~particle.valid

\* variant: the activation check lets only management peers through
WorkerInactiveForHost(W, particle, peer_scope) ==
    /\ peer_scope \in Workers
    /\ ~is_worker_active(W, peer_scope)
    /\ ~is_management(particle.init_peer_id)

\* plumber.rs:136-146: only a manager or the host itself is allowed to
\* access deactivated workers
WorkerInactive(W, particle, peer_scope) ==
    /\ peer_scope \in Workers
    /\ ~is_worker_active(W, peer_scope)
    /\ ~is_management(particle.init_peer_id)
    /\ ~is_host(particle.init_peer_id)

\* variant: an actor can be created for every scope
ActorCreationNeverFails(W, tbl, peer_scope, key) == FALSE

\* get_or_create_actor returns Err for a vacant key when the key pair, the
\* deal id or the runtime handle of the scope is not found (plumber.rs:195-208).
\* The host's key pair is always there, and signing the particle token with
\* the root key pair (plumber.rs:185-188) is taken to succeed.
ActorCreationFails(W, tbl, peer_scope, key) ==
    /\ key \notin DOMAIN tbl
    /\ peer_scope \in Workers
    /\ peer_scope \notin W.registered

\* variant: the Occupied arm of plumber.rs:182 builds a new actor too
get_or_create_actor_fresh(tbl, peer_scope, key, particle) ==
    [k \in DOMAIN tbl \cup {key} |->
        IF k = key THEN ActorNew(particle) ELSE tbl[k]]

\* The table after get_or_create_actor returned Ok.
get_or_create_actor(tbl, peer_scope, key, particle) ==
    IF key \in DOMAIN tbl THEN tbl
    ELSE [k \in DOMAIN tbl \cup {key} |->
             IF k = key THEN ActorNew(particle) ELSE tbl[k]]

\* variant: ingest verifies the signature before it looks at the deadline
IngestOutcomeSignatureFirst(S, particle, peer_scope) ==
    LET key == ActorKey(particle.signature, peer_scope)
    IN  IF VerifyFails(particle) THEN "SignatureVerificationFailed"
        ELSE IF ExpiredAtIngest(particle) THEN "ParticleExpired"
        ELSE IF WorkerInactive(S.workers, particle, peer_scope) THEN "WorkerInactive"
        ELSE IF ActorCreationFails(S.workers, S.actors, peer_scope, key)
             THEN "NoSuchWorker"
        ELSE "Admitted"

\* plumber.rs:114-171: the checks of ingest in their order, and what the
\* first one that fails makes of the call
IngestOutcome(S, particle, peer_scope) ==
    LET key == ActorKey(particle.signature, peer_scope)
    IN  IF ExpiredAtIngest(particle) THEN "ParticleExpired"
        ELSE IF VerifyFails(particle) THEN "SignatureVerificationFailed"
        ELSE IF WorkerInactive(S.workers, particle, peer_scope) THEN "WorkerInactive"
        ELSE IF ActorCreationFails(S.workers, S.actors, peer_scope, key)
             THEN "NoSuchWorker"
        ELSE "Admitted"

\* S is what ingest works on: [events, actors], and the registry S.workers;
\* `function` is the per-call override, an Option.
ingest(S, particle, function, peer_scope) ==
    LET key == ActorKey(particle.signature, peer_scope)
        outcome == IngestOutcome(S, particle, peer_scope)
    IN  CASE outcome = "ParticleExpired" ->
               [S EXCEPT !.events = Append(@, ParticleExpired(particle.id))]
          [] outcome = "SignatureVerificationFailed" ->
               [S EXCEPT !.events =
                    Append(@, SignatureVerificationFailed(particle.id))]
          [] outcome = "Admitted" ->
               LET tbl == get_or_create_actor(S.actors, peer_scope, key, particle)
                   actor == ActorIngest(tbl[key], particle)
               IN  [S EXCEPT
                      !.actors = [tbl EXCEPT ![key] =
                                     IF IsSome(function)
                                     THEN set_function(actor, Unwrap(function))
                                     ELSE actor]]
          [] OTHER -> S

\* ------------------------------------------------------ VmPool (spec 4.2)
\* runtimes[id] is TRUE when the VM is idle in the pool (Some(vm)) and FALSE
\* when the slot is empty (borrowed, or being built); creating holds the ids
\* of the slots being (re)built.
free_vms(pool) == Cardinality({ id \in DOMAIN pool.runtimes : pool.runtimes[id] })

IdleVms(pool) == { id \in DOMAIN pool.runtimes : pool.runtimes[id] }

\* get_vm: (Some(vm_id), the pool without that VM) or (None, the pool)
get_vm(pool) ==
    IF IdleVms(pool) = {} THEN [vm |-> NoneOpt, pool |-> pool]
    ELSE LET id == CHOOSE i \in IdleVms(pool) : \A j \in IdleVms(pool) : i <= j
         IN  [vm |-> Some(id),
              pool |-> [pool EXCEPT !.runtimes[id] = FALSE]]

put_vm(pool, vm_id) == [pool EXCEPT !.runtimes[vm_id] = TRUE]

recreate_avm(pool, vm_id) == [pool EXCEPT !.creating = @ \cup {vm_id}]

\* VmPool::poll: the creation futures in `ready` have finished.
VmPoolPoll(pool, ready) ==
    [runtimes |-> [id \in DOMAIN pool.runtimes |->
                      pool.runtimes[id] \/ id \in ready],
     creating |-> pool.creating \ ready]

\* -------------------------------------------- Actor polling (spec 4.3)
Execution(vm_id, particle) ==
    [vm_id |-> vm_id, particle |-> particle, status |-> "running",
     next_peers |-> <<>>]

\* poll_completed is Ready when the execution in flight has finished
PollCompletedReady(actor) ==
    IsSome(actor.future) /\ Unwrap(actor.future).status # "running"

\* poll_completed takes the future out of the actor
TakeFuture(actor) == [actor EXCEPT !.future = NoneOpt]

\* poll_next consumes the VM when no execution is in flight and the mailbox
\* is non-empty
PollNextConsumes(actor) == ~ActorIsExecuting(actor) /\ actor.mailbox # <<>>

poll_next(actor, vm_id) ==
    IF PollNextConsumes(actor)
    THEN [actor EXCEPT !.mailbox = Tail(@),
                       !.future = Some(Execution(vm_id, Head(actor.mailbox)))]
    ELSE actor

\* --------------------------------------------------------- Plumber::poll
\* plumber.rs:283-326, the actors whose poll_completed is Ready, in the
\* order of the iteration
CompletedKeys(tbl, ord) == SelectSeq(ord, LAMBDA k : PollCompletedReady(tbl[k]))

\* variant: the Ok arm of plumber.rs:295-297 pushes to remote_peers as well
remote_peers_all(W, next_peers) == next_peers

\* plumber.rs:287-299
remote_peers(W, next_peers) ==
    SelectSeq(next_peers, LAMBDA np : ~IsSome(scope(W, np)))
local_peers(W, next_peers) ==
    LET loc == SelectSeq(next_peers, LAMBDA np : IsSome(scope(W, np)))
    IN  [i \in 1 .. Len(loc) |-> Unwrap(scope(W, loc[i]))]

\* variant: a remote effect is pushed for every completed execution
RemoteEffectsAlsoEmpty(W, tbl, done) ==
    [i \in 1 .. Len(done) |->
        LET f == Unwrap(tbl[done[i]].future)
        IN  RemoteRoutingEffects(f.particle, remote_peers(W, f.next_peers))]

\* plumber.rs:301-306, over the completed actors
RemoteEffects(W, tbl, done) ==
    LET with == SelectSeq(done, LAMBDA k :
                    remote_peers(W, Unwrap(tbl[k].future).next_peers) # <<>>)
    IN  [i \in 1 .. Len(with) |->
            LET f == Unwrap(tbl[with[i]].future)
            IN  RemoteRoutingEffects(f.particle, remote_peers(W, f.next_peers))]

\* plumber.rs:308-313, over the completed actors
LocalEffects(W, tbl, done) ==
    LET with == SelectSeq(done, LAMBDA k :
                    local_peers(W, Unwrap(tbl[k].future).next_peers) # <<>>)
    IN  [i \in 1 .. Len(with) |->
            LET f == Unwrap(tbl[with[i]].future)
            IN  [particle |-> f.particle,
                 next_peers |-> local_peers(W, f.next_peers)]]

\* variant: the VM slot of a lost runtime is marked idle instead of recreated
ReturnRuntimeAlwaysPut(pool, future) == put_vm(pool, future.vm_id)

\* plumber.rs:315-323: put the VM back, or ask the pool to recreate it
ReturnRuntime(pool, future) ==
    IF future.status = "done" THEN put_vm(pool, future.vm_id)
    ELSE recreate_avm(pool, future.vm_id)

RECURSIVE ReturnRuntimes(_, _, _)
ReturnRuntimes(pool, tbl, done) ==
    IF done = <<>> THEN pool
    ELSE ReturnRuntimes(ReturnRuntime(pool, Unwrap(tbl[Head(done)].future)),
                        tbl, Tail(done))

\* the table after the loop of plumber.rs:283-326
Drained(tbl) ==
    [k \in DOMAIN tbl |->
        IF PollCompletedReady(tbl[k]) THEN TakeFuture(tbl[k]) ELSE tbl[k]]

\* plumber.rs:328-331: the cleanup future after it was polled
CleanupPolled(future, ready) == IF IsSome(future) /\ ready THEN NoneOpt ELSE future

\* variant: retain() drops every actor that is not executing
EvictableBeforeDeadline(actor) == ~ActorIsExecuting(actor)

\* variant: retain() drops the expired actors, executing or not
EvictableWhileExecuting(actor) == ActorIsExpired(actor, now)

\* variant: retain() keeps an expired actor that has a particle waiting
EvictableWhenDrained(actor) ==
    /\ ActorIsExpired(actor, now)
    /\ ~ActorIsExecuting(actor)
    /\ actor.mailbox = <<>>

\* variant: retain() drops an actor that is expired or not executing
EvictableExpiredOrIdle(actor) ==
    ActorIsExpired(actor, now) \/ ~ActorIsExecuting(actor)

\* variant: the cleanup keeps every actor
EvictableNever(actor) == FALSE

\* plumber.rs:346-348
Evictable(actor) == ActorIsExpired(actor, now) /\ ~ActorIsExecuting(actor)

\* variant: retain() without the test of plumber.rs:343-345
cleanup_keys_uncapped(tbl, ord) ==
    SelectSeq(ord, LAMBDA k : Evictable(tbl[k]))

\* plumber.rs:339-352: retain() visits the actors in order and removes the
\* expired idle ones until MAX_CLEANUP_KEYS_SIZE keys are collected
cleanup_keys(tbl, ord) ==
    Take(SelectSeq(ord, LAMBDA k : Evictable(tbl[k])), MAX_CLEANUP_KEYS_SIZE)

\* variant: the cleanup removes every expired idle actor, whatever keys it
\* collected
RetainedUncapped(tbl, keys) ==
    [k \in { x \in DOMAIN tbl : ~Evictable(tbl[x]) } |-> tbl[k]]

\* plumber.rs:339-352: the actors retain() keeps
Retained(tbl, keys) == [k \in DOMAIN tbl \ SeqToSet(keys) |-> tbl[k]]

\* plumber.rs:354-358: the argument of batch_cleanup_data, when it is called
CleanupBatch(keys) == IF keys # <<>> THEN Some(keys) ELSE NoneOpt

\* plumber.rs:354-358
CleanupLaunched(keys) ==
    IF keys # <<>> THEN Some("batch_cleanup_data") ELSE NoneOpt

\* variant: the dispatch loop puts the VM back only for an actor that is idle
OfferKeepsVmWhenExecuting(D, key) ==
    LET got == get_vm(D.pool)
    IN  IF ~IsSome(got.vm) THEN [D EXCEPT !.stop = TRUE]
        ELSE LET vm_id == Unwrap(got.vm)
                 consumed == PollNextConsumes(D.actors[key])
             IN  [actors |-> [D.actors EXCEPT ![key] = poll_next(@, vm_id)],
                  pool |-> IF consumed \/ ActorIsExecuting(D.actors[key])
                           THEN got.pool ELSE put_vm(got.pool, vm_id),
                  offers |-> Append(D.offers, [key |-> key, vm_id |-> vm_id,
                                               consumed |-> consumed]),
                  stop |-> FALSE]

\* variant: the dispatch loop keeps the VM that poll_next did not consume
OfferKeepsVm(D, key) ==
    LET got == get_vm(D.pool)
    IN  IF ~IsSome(got.vm) THEN [D EXCEPT !.stop = TRUE]
        ELSE LET vm_id == Unwrap(got.vm)
                 consumed == PollNextConsumes(D.actors[key])
             IN  [actors |-> [D.actors EXCEPT ![key] = poll_next(@, vm_id)],
                  pool |-> got.pool,
                  offers |-> Append(D.offers, [key |-> key, vm_id |-> vm_id,
                                               consumed |-> consumed]),
                  stop |-> FALSE]

\* plumber.rs:363-379: one round of the dispatch loop for the actor `key`.
\* D is [actors, pool, offers, stop].
Offer(D, key) ==
    LET got == get_vm(D.pool)
    IN  IF ~IsSome(got.vm) THEN [D EXCEPT !.stop = TRUE]
        ELSE LET vm_id == Unwrap(got.vm)
                 consumed == PollNextConsumes(D.actors[key])
             IN  [actors |-> [D.actors EXCEPT ![key] = poll_next(@, vm_id)],
                  pool |-> IF consumed THEN got.pool ELSE put_vm(got.pool, vm_id),
                  offers |-> Append(D.offers, [key |-> key, vm_id |-> vm_id,
                                               consumed |-> consumed]),
                  stop |-> FALSE]

\* variant: the dispatch loop ends at the first actor that hands the VM back
RECURSIVE DispatchUntilUnconsumed(_, _)
DispatchUntilUnconsumed(D, ord) ==
    IF ord = <<>> \/ D.stop THEN D
    ELSE LET E == Offer(D, Head(ord))
         IN  IF ~E.stop /\ ~E.offers[Len(E.offers)].consumed THEN E
             ELSE DispatchUntilUnconsumed(E, Tail(ord))

\* plumber.rs:363-379: the dispatch loop over the actors in the order `ord`
RECURSIVE Dispatch(_, _)
Dispatch(D, ord) ==
    IF ord = <<>> \/ D.stop THEN D
    ELSE Dispatch(Offer(D, Head(ord)), Tail(ord))

\* plumber.rs:400-406: the (particle, scope) pairs replayed through ingest
LocalHops(local_effects) ==
    Flatten([i \in 1 .. Len(local_effects) |->
                [j \in 1 .. Len(local_effects[i].next_peers) |->
                    [particle |-> local_effects[i].particle,
                     peer_scope |-> local_effects[i].next_peers[j]]]])

\* variant: the local hops are put into the mailboxes without the checks of
\* ingest
RECURSIVE ReingestUnchecked(_, _)
ReingestUnchecked(R, hops) ==
    IF hops = <<>> THEN R
    ELSE LET h == Head(hops)
             key == ActorKey(h.particle.signature, h.peer_scope)
             tbl == get_or_create_actor(R.S.actors, h.peer_scope, key, h.particle)
         IN  ReingestUnchecked(
                [S |-> [R.S EXCEPT
                          !.actors = [tbl EXCEPT ![key] = ActorIngest(@, h.particle)]],
                 log |-> Append(R.log,
                            [particle |-> h.particle,
                             function |-> NoneOpt,
                             peer_scope |-> h.peer_scope,
                             outcome |-> "Admitted"])],
                Tail(hops))

\* R is [S, log]: the plumber state and the outcomes of the ingests so far
RECURSIVE Reingest(_, _)
Reingest(R, hops) ==
    IF hops = <<>> THEN R
    ELSE LET h == Head(hops)
         IN  Reingest([S |-> ingest(R.S, h.particle, NoneOpt, h.peer_scope),
                       log |-> Append(R.log,
                                  [particle |-> h.particle,
                                   function |-> NoneOpt,
                                   peer_scope |-> h.peer_scope,
                                   outcome |-> IngestOutcome(R.S, h.particle,
                                                             h.peer_scope)])],
                      Tail(hops))

\* ============================================================== Kademlia
\* The discovery behaviour wraps the libp2p Kademlia behaviour, which is a
\* library: the model keeps of it the routing table (the addresses known
\* for a peer), the queries it was asked to run and the events it hands to
\* the wrapper.  Durations are counted in units of the clock.

\* The peers of the routing table, and those of them that are looked up.
KadPeers == {"p1", "p2"}
Wanted == {"p1"}

\* The addresses of a contact and the address a routable-peer event carries.
ContactAddress == "a1"
EventAddress == "a2"

\* The reply channels (oneshot senders) the behaviour is handed in a run.
KadMaxCalls == 2
\* The commands and events one poll finds ready, taken together.
KadMaxBatch == 1
\* The clock stops here.
KadMaxTime == 4

\* server_config::KademliaConfig as far as the behaviour reads it.  The test
\* configuration has query_timeout < ban_cooldown and a threshold of 1.
Configs ==
    { [query_timeout |-> 1, peer_fail_threshold |-> 1, ban_cooldown |-> 2],
      [query_timeout |-> 1, peer_fail_threshold |-> 2, ban_cooldown |-> 1] }

Min(a, b) == IF a <= b THEN a ELSE b

RECURSIVE MinOf(_)
MinOf(S) ==
    LET x == CHOOSE y \in S : TRUE
    IN  IF S = {x} THEN x ELSE Min(x, MinOf(S \ {x}))

\* Result<T, KademliaError> as it is sent into a reply channel.
Ok(value) == [ok |-> TRUE, value |-> value]
Err(error) == [ok |-> FALSE, value |-> error]
Unit == "()"

\* A reply channel: the call it was made for and what was sent into it.
Outlet(call, peer) == [call |-> call, peer |-> peer, sent |-> <<>>]

\* outlet.send(reply).ok()
Send(outs, out, reply) == [outs EXCEPT ![out].sent = Append(@, reply)]

\* PendingQuery
PeerQuery(peer) == [kind |-> "Peer", peer |-> peer, out |-> 0]
UnitQuery(out) == [kind |-> "Unit", peer |-> "-", out |-> out]
NeighborhoodQuery(out) == [kind |-> "Neighborhood", peer |-> "-", out |-> out]

\* PendingPeer::new
PendingPeer(out, created) == [out |-> out, created |-> created]

\* FailedPeer::default and FailedPeer::increment
FailedPeerDefault == [ban |-> NoneOpt, count |-> 0]
increment(failed) == [failed EXCEPT !.count = @ + 1]

\* HashMap::remove
RemoveKey(f, k) == [x \in DOMAIN f \ {k} |-> f[x]]
\* HashMap::insert
InsertKey(f, k, v) == [x \in DOMAIN f \cup {k} |-> IF x = k THEN v ELSE f[x]]

\* ------------------------------------------------ the libp2p behaviour
\* kad::Behaviour::add_address: a known address is not added again.
add_address(kad, peer, address) ==
    IF address \in SeqToSet(kad.routing[peer]) THEN kad
    ELSE [kad EXCEPT !.routing[peer] = Append(@, address)]

\* kad::Behaviour::get_closest_peers and bootstrap start a query and return
\* its fresh id; a query stays `running` until its last event is out.
StartQuery(kad, kind) ==
    [kad EXCEPT !.issued = Append(@, [kind |-> kind, running |-> TRUE])]

NewQueryId(kad) == Len(kad.issued) + 1

\* kad::Behaviour::bootstrap fails when the routing table is empty.
NoKnownPeers(kad) == \A p \in KadPeers : kad.routing[p] = <<>>

\* The events the libp2p behaviour can hand over in state `kad`: the result
\* of a closest-peers query that is running, the progress of a bootstrap
\* that is running, and the routing notifications about a peer (of a peer
\* that is not looked up it is enough to know that it came into the table).
KadEvent(type, id, peer, addresses, ok, peers, num_remaining) ==
    [type |-> type, id |-> id, peer |-> peer, addresses |-> addresses,
     ok |-> ok, peers |-> peers, num_remaining |-> num_remaining]

\* The peers a closest-peers result carries: none, or the contact.
FoundPeers == { <<>>, <<"p2">> }

\* num_remaining of a bootstrap result: Some(0), Some(1), and None (which
\* only a timeout can report).
Remaining == { NoneOpt, Some(0), Some(1) }

KadEvents(kad) ==
    { KadEvent("GetClosestPeers", id, "-", <<>>, ok, peers, NoneOpt) :
        id \in { i \in DOMAIN kad.issued :
                   kad.issued[i].kind = "GetClosestPeers" /\ kad.issued[i].running },
        ok \in BOOLEAN, peers \in FoundPeers }
    \cup
    { e \in { KadEvent("Bootstrap", id, "-", <<>>, ok, <<>>, rem) :
                id \in { i \in DOMAIN kad.issued :
                           kad.issued[i].kind = "Bootstrap" /\ kad.issued[i].running },
                ok \in BOOLEAN, rem \in Remaining } :
        e.ok => IsSome(e.num_remaining) }
    \cup
    { KadEvent("RoutingUpdated", 0, p, <<ContactAddress>>, TRUE, <<>>, NoneOpt) :
        p \in KadPeers }
    \cup
    { KadEvent(type, 0, p, <<EventAddress>>, TRUE, <<>>, NoneOpt) :
        type \in {"RoutablePeer", "PendingRoutablePeer", "UnroutablePeer"},
        p \in Wanted }

\* What producing event `e` does to the libp2p behaviour: a closest-peers
\* result and a bootstrap timeout end their query, a successful bootstrap
\* step ends it when no bucket remains, a routing update is in the table.
Emit(kad, e) ==
    CASE e.type = "GetClosestPeers" ->
            [kad EXCEPT !.issued[e.id].running = FALSE]
      [] e.type = "Bootstrap" ->
            IF e.ok /\ e.num_remaining # Some(0) THEN kad
            ELSE [kad EXCEPT !.issued[e.id].running = FALSE]
      [] e.type = "RoutingUpdated" ->
            [kad EXCEPT !.routing[e.peer] = e.addresses]
      [] OTHER -> kad

\* -------------------------------------------------------- the wrapper
\* The state of the behaviour as a record K, so that a handler is a function
\* from K to K.

\* Kademlia::addresses_of_peer
addresses_of_peer(K, peer) == K.kademlia.routing[peer]

\* Kademlia::is_banned
is_banned(K, peer) ==
    peer \in DOMAIN K.failed_peers /\ IsSome(K.failed_peers[peer].ban)

\* Kademlia::add_contact
add_contact(K, peer) ==
    [K EXCEPT !.kademlia = add_address(@, peer, ContactAddress)]

\* Kademlia::bootstrap; `out` is the reply channel
bootstrap(K, out) ==
    IF ~NoKnownPeers(K.kademlia)
    THEN [K EXCEPT !.queries = InsertKey(@, NewQueryId(K.kademlia), UnitQuery(out)),
                   !.kademlia = StartQuery(@, "Bootstrap")]
    ELSE [K EXCEPT !.outlets = Send(@, out, Err("NoKnownPeers"))]

\* Kademlia::remote_neighborhood; `out` is the reply channel
remote_neighborhood(K, out) ==
    [K EXCEPT !.queries = InsertKey(@, NewQueryId(K.kademlia), NeighborhoodQuery(out)),
              !.kademlia = StartQuery(@, "GetClosestPeers")]

\* discover_peer that starts a query for every waiter
discover_peer_always_queries(K, peer, out, t) ==
    LET local == addresses_of_peer(K, peer)
        outs == IF peer \in DOMAIN K.pending_peers THEN K.pending_peers[peer]
                ELSE <<>>
    IN  IF local # <<>> THEN [K EXCEPT !.outlets = Send(@, out, Ok(local))]
        ELSE IF is_banned(K, peer)
        THEN [K EXCEPT !.outlets = Send(@, out, Err("PeerBanned"))]
        ELSE [K EXCEPT
                !.pending_peers = InsertKey(@, peer, Append(outs, PendingPeer(out, t))),
                !.queries = InsertKey(@, NewQueryId(K.kademlia), PeerQuery(peer)),
                !.kademlia = StartQuery(@, "GetClosestPeers")]

\* discover_peer that looks at the ban before the local lookup
discover_peer_ban_first(K, peer, out, t) ==
    LET local == addresses_of_peer(K, peer)
        outs == IF peer \in DOMAIN K.pending_peers THEN K.pending_peers[peer]
                ELSE <<>>
        discovering == outs # <<>>
        pending == InsertKey(K.pending_peers, peer, Append(outs, PendingPeer(out, t)))
    IN  IF is_banned(K, peer)
        THEN [K EXCEPT !.outlets = Send(@, out, Err("PeerBanned"))]
        ELSE IF local # <<>> THEN [K EXCEPT !.outlets = Send(@, out, Ok(local))]
        ELSE IF discovering THEN [K EXCEPT !.pending_peers = pending]
        ELSE [K EXCEPT
                !.pending_peers = pending,
                !.queries = InsertKey(@, NewQueryId(K.kademlia), PeerQuery(peer)),
                !.kademlia = StartQuery(@, "GetClosestPeers")]

\* Kademlia::discover_peer at instant t; `out` is the reply channel
discover_peer(K, peer, out, t) ==
    LET local == addresses_of_peer(K, peer)
        outs == IF peer \in DOMAIN K.pending_peers THEN K.pending_peers[peer]
                ELSE <<>>
        discovering == outs # <<>>
        pending == InsertKey(K.pending_peers, peer, Append(outs, PendingPeer(out, t)))
    IN  IF local # <<>> THEN [K EXCEPT !.outlets = Send(@, out, Ok(local))]
        ELSE IF is_banned(K, peer)
        THEN [K EXCEPT !.outlets = Send(@, out, Err("PeerBanned"))]
        ELSE IF discovering THEN [K EXCEPT !.pending_peers = pending]
        ELSE [K EXCEPT
                !.pending_peers = pending,
                !.queries = InsertKey(@, NewQueryId(K.kademlia), PeerQuery(peer)),
                !.kademlia = StartQuery(@, "GetClosestPeers")]

\* The commands of the API that change the behaviour.
DiscoverPeerCmd(peer) == [cmd |-> "DiscoverPeer", peer |-> peer]
BootstrapCmd == [cmd |-> "Bootstrap", peer |-> "-"]
AddContactCmd(peer) == [cmd |-> "AddContact", peer |-> peer]

Commands ==
    { DiscoverPeerCmd(p) : p \in Wanted } \cup { BootstrapCmd }
        \cup { AddContactCmd(p) : p \in KadPeers }

HasOutlet(cmd) == cmd.cmd \in {"DiscoverPeer", "Bootstrap"}

\* The sender of a command made the reply channel before sending it.
WithOutlet(K, cmd) ==
    IF HasOutlet(cmd) THEN [K EXCEPT !.outlets = Append(@, Outlet(cmd.cmd, cmd.peer))]
    ELSE K

\* Kademlia::execute
execute(K, cmd, t) ==
    LET K1 == WithOutlet(K, cmd)
        out == Len(K1.outlets)
    IN  CASE cmd.cmd = "AddContact" -> add_contact(K1, cmd.peer)
          [] cmd.cmd = "Bootstrap" -> bootstrap(K1, out)
          [] cmd.cmd = "DiscoverPeer" -> discover_peer(K1, cmd.peer, out, t)

RECURSIVE ExecuteAll(_, _, _)
ExecuteAll(K, cmds, t) ==
    IF cmds = <<>> THEN K
    ELSE ExecuteAll(execute(K, Head(cmds), t), Tail(cmds), t)

\* peer_discovered that answers the first waiter of the peer only
peer_discovered_first_waiter(K, peer, addresses) ==
    LET pendings == IF peer \in DOMAIN K.pending_peers THEN K.pending_peers[peer]
                    ELSE <<>>
        waiting == IF pendings = <<>> THEN {} ELSE { pendings[1].out }
    IN  [K EXCEPT
           !.outlets = [out \in DOMAIN @ |->
                          IF out \in waiting
                          THEN [@[out] EXCEPT !.sent = Append(@, Ok(addresses))]
                          ELSE @[out]],
           !.pending_peers = RemoveKey(@, peer),
           !.failed_peers = RemoveKey(@, peer)]

\* peer_discovered that answers the waiters and leaves them queued
peer_discovered_keeps_waiters(K, peer, addresses) ==
    LET pendings == IF peer \in DOMAIN K.pending_peers THEN K.pending_peers[peer]
                    ELSE <<>>
        waiting == { pendings[i].out : i \in DOMAIN pendings }
    IN  [K EXCEPT
           !.outlets = [out \in DOMAIN @ |->
                          IF out \in waiting
                          THEN [@[out] EXCEPT !.sent = Append(@, Ok(addresses))]
                          ELSE @[out]],
           !.failed_peers = RemoveKey(@, peer)]

\* Kademlia::peer_discovered
peer_discovered(K, peer, addresses) ==
    LET pendings == IF peer \in DOMAIN K.pending_peers THEN K.pending_peers[peer]
                    ELSE <<>>
        waiting == { pendings[i].out : i \in DOMAIN pendings }
    IN  [K EXCEPT
           !.outlets = [out \in DOMAIN @ |->
                          IF out \in waiting
                          THEN [@[out] EXCEPT !.sent = Append(@, Ok(addresses))]
                          ELSE @[out]],
           !.pending_peers = RemoveKey(@, peer),
           !.failed_peers = RemoveKey(@, peer)]

\* closest_finished, the Neighborhood arm with a timeout always an error
neighborhood_result_strict(e) ==
    IF e.ok THEN (IF e.peers # <<>> THEN Ok(e.peers) ELSE Err("NoPeersFound"))
    ELSE Err("QueryTimedOut")

\* Kademlia::closest_finished, the Neighborhood arm: the reply for a result
\* e (e.ok for Ok(GetClosestPeersOk), otherwise Err(Timeout))
neighborhood_result(e) ==
    CASE e.ok /\ e.peers # <<>> -> Ok(e.peers)
      [] e.ok -> Err("NoPeersFound")
      [] ~e.ok /\ e.peers # <<>> -> Ok(e.peers)
      [] OTHER -> Err("QueryTimedOut")

\* closest_finished that gives the waiters up when the lookup is empty
closest_finished_drops_waiters(K, e) ==
    IF e.id \notin DOMAIN K.queries THEN K
    ELSE LET query == K.queries[e.id]
             K1 == [K EXCEPT !.queries = RemoveKey(@, e.id)]
         IN  CASE query.kind = "Peer" ->
                    IF addresses_of_peer(K1, query.peer) # <<>>
                    THEN peer_discovered(K1, query.peer,
                                         addresses_of_peer(K1, query.peer))
                    ELSE [K1 EXCEPT !.pending_peers = RemoveKey(@, query.peer)]
               [] query.kind = "Neighborhood" ->
                    [K1 EXCEPT !.outlets = Send(@, query.out, neighborhood_result(e))]
               [] query.kind = "Unit" ->
                    [K1 EXCEPT !.outlets = Send(@, query.out, Ok(Unit))]

\* Kademlia::closest_finished
closest_finished(K, e) ==
    IF e.id \notin DOMAIN K.queries THEN K
    ELSE LET query == K.queries[e.id]
             K1 == [K EXCEPT !.queries = RemoveKey(@, e.id)]
         IN  CASE query.kind = "Peer" ->
                    IF addresses_of_peer(K1, query.peer) # <<>>
                    THEN peer_discovered(K1, query.peer,
                                         addresses_of_peer(K1, query.peer))
                    ELSE K1
               [] query.kind = "Neighborhood" ->
                    [K1 EXCEPT !.outlets = Send(@, query.out, neighborhood_result(e))]
               [] query.kind = "Unit" ->
                    [K1 EXCEPT !.outlets = Send(@, query.out, Ok(Unit))]

\* bootstrap_finished that takes every result for the end of the bootstrap
bootstrap_finished_any(K, e) ==
    IF e.id \in DOMAIN K.queries
    THEN LET query == K.queries[e.id]
             K1 == [K EXCEPT !.queries = RemoveKey(@, e.id)]
         IN  IF query.kind = "Unit"
             THEN [K1 EXCEPT !.outlets = Send(@, query.out, Ok(Unit))]
             ELSE K1
    ELSE K

\* Kademlia::bootstrap_finished
bootstrap_finished(K, e) ==
    IF e.num_remaining = Some(0) /\ e.id \in DOMAIN K.queries
    THEN LET query == K.queries[e.id]
             K1 == [K EXCEPT !.queries = RemoveKey(@, e.id)]
         IN  IF query.kind = "Unit"
             THEN [K1 EXCEPT !.outlets = Send(@, query.out, Ok(Unit))]
             ELSE K1
    ELSE K

\* inject_kad_event that takes no routing notification for a discovery
inject_kad_event_queries_only(K, e) ==
    CASE e.type = "GetClosestPeers" -> closest_finished(K, e)
      [] e.type = "Bootstrap" -> bootstrap_finished(K, e)
      [] OTHER -> K

\* Kademlia::inject_kad_event
inject_kad_event(K, e) ==
    CASE e.type = "GetClosestPeers" -> closest_finished(K, e)
      [] e.type = "Bootstrap" -> bootstrap_finished(K, e)
      [] e.type = "RoutingUpdated" -> peer_discovered(K, e.peer, e.addresses)
      [] e.type \in {"RoutablePeer", "PendingRoutablePeer"} ->
            peer_discovered(K, e.peer, e.addresses)
      [] OTHER -> K

\* NetworkBehaviour::poll, second loop: the libp2p behaviour is polled and
\* each event it generates is injected.
RECURSIVE InjectAll(_, _)
InjectAll(K, evs) ==
    IF evs = <<>> THEN K
    ELSE InjectAll(inject_kad_event([K EXCEPT !.kademlia = Emit(@, Head(evs))],
                                    Head(evs)),
                   Tail(evs))

\* The batches of events the libp2p behaviour can produce one after another
\* from state `kad`.
RECURSIVE EventBatches(_, _)
EventBatches(kad, n) ==
    IF n = 0 THEN { <<>> }
    ELSE { <<>> } \cup
         UNION { { <<e>> \o rest : rest \in EventBatches(Emit(kad, e), n - 1) } :
                 e \in KadEvents(kad) }

\* Instant::duration_since saturates at zero.
duration_since(t, earlier) == IF t >= earlier THEN t - earlier ELSE 0

\* has_timed_out that is true only once the timeout is exceeded
has_timed_out_strict(t, timestamp, timeout) ==
    ~(timeout >= duration_since(t, timestamp))

\* has_timed_out: the returned flag
has_timed_out(t, timestamp, timeout) ==
    ~(timeout > duration_since(t, timestamp))

\* has_timed_out: what it leaves in `wake`
wake_after(t, timestamp, timeout, wake) ==
    IF has_timed_out(t, timestamp, timeout) THEN wake
    ELSE Min(timeout - duration_since(t, timestamp), wake)

\* The ban step of the sweep that bans at the first failure
ban_on_any_failure(failed, cfg, t) == [failed EXCEPT !.ban = Some(t)]

\* The ban step of the sweep that never bans
ban_never(failed, cfg, t) == failed

\* Kademlia::poll, the ban step for an entry that is retained
ban(failed, cfg, t) ==
    IF failed.count >= cfg.peer_fail_threshold
    THEN [failed EXCEPT !.ban = Some(t)]
    ELSE failed

\* the sweep that counts one failure for each waiter that timed out
sweep_counts_each_waiter(K, cfg, t) ==
    IF DOMAIN K.pending_peers = {} /\ DOMAIN K.failed_peers = {} THEN K
    ELSE
    LET deadline == 2 * cfg.query_timeout
        expired(p) == SelectSeq(K.pending_peers[p],
                        LAMBDA w : has_timed_out(t, w.created, deadline))
        kept(p) == SelectSeq(K.pending_peers[p],
                        LAMBDA w : ~has_timed_out(t, w.created, deadline))
        timed_out == { p \in DOMAIN K.pending_peers : expired(p) # <<>> }
        notified == UNION { { expired(p)[i].out : i \in DOMAIN expired(p) } :
                            p \in timed_out }
        counted == [p \in DOMAIN K.failed_peers \cup timed_out |->
                      LET failed == IF p \in DOMAIN K.failed_peers
                                    THEN K.failed_peers[p] ELSE FailedPeerDefault
                      IN  IF p \in timed_out
                          THEN [failed EXCEPT !.count = @ + Len(expired(p))]
                          ELSE failed]
        unban(p) == /\ IsSome(counted[p].ban)
                    /\ has_timed_out(t, Unwrap(counted[p].ban), cfg.ban_cooldown)
        wakes == { Min(cfg.query_timeout, cfg.ban_cooldown) }
                   \cup UNION { { wake_after(t, K.pending_peers[p][i].created, deadline,
                                             Min(cfg.query_timeout, cfg.ban_cooldown)) :
                                    i \in DOMAIN K.pending_peers[p] } :
                                 p \in DOMAIN K.pending_peers }
                   \cup { wake_after(t, Unwrap(counted[p].ban), cfg.ban_cooldown,
                                     Min(cfg.query_timeout, cfg.ban_cooldown)) :
                            p \in { q \in DOMAIN counted : IsSome(counted[q].ban) } }
    IN  [K EXCEPT
           !.outlets = [out \in DOMAIN @ |->
                          IF out \in notified
                          THEN [@[out] EXCEPT !.sent = Append(@, Err("PeerTimedOut"))]
                          ELSE @[out]],
           !.pending_peers = [p \in { q \in DOMAIN @ : kept(q) # <<>> } |-> kept(p)],
           !.failed_peers = [p \in { q \in DOMAIN counted : ~unban(q) } |->
                               ban(counted[p], cfg, t)],
           !.timer = t + MinOf(wakes)]

\* Kademlia::poll after the commands: the sweep of the waiters and of the
\* failure records at instant t, and the reset of the timer.
sweep(K, cfg, t) ==
    IF DOMAIN K.pending_peers = {} /\ DOMAIN K.failed_peers = {} THEN K
    ELSE
    LET deadline == 2 * cfg.query_timeout
        expired(p) == SelectSeq(K.pending_peers[p],
                        LAMBDA w : has_timed_out(t, w.created, deadline))
        kept(p) == SelectSeq(K.pending_peers[p],
                        LAMBDA w : ~has_timed_out(t, w.created, deadline))
        timed_out == { p \in DOMAIN K.pending_peers : expired(p) # <<>> }
        notified == UNION { { expired(p)[i].out : i \in DOMAIN expired(p) } :
                            p \in timed_out }
        counted == [p \in DOMAIN K.failed_peers \cup timed_out |->
                      LET failed == IF p \in DOMAIN K.failed_peers
                                    THEN K.failed_peers[p] ELSE FailedPeerDefault
                      IN  IF p \in timed_out THEN increment(failed) ELSE failed]
        unban(p) == /\ IsSome(counted[p].ban)
                    /\ has_timed_out(t, Unwrap(counted[p].ban), cfg.ban_cooldown)
        wakes == { Min(cfg.query_timeout, cfg.ban_cooldown) }
                   \cup UNION { { wake_after(t, K.pending_peers[p][i].created, deadline,
                                             Min(cfg.query_timeout, cfg.ban_cooldown)) :
                                    i \in DOMAIN K.pending_peers[p] } :
                                 p \in DOMAIN K.pending_peers }
                   \cup { wake_after(t, Unwrap(counted[p].ban), cfg.ban_cooldown,
                                     Min(cfg.query_timeout, cfg.ban_cooldown)) :
                            p \in { q \in DOMAIN counted : IsSome(counted[q].ban) } }
    IN  [K EXCEPT
           !.outlets = [out \in DOMAIN @ |->
                          IF out \in notified
                          THEN [@[out] EXCEPT !.sent = Append(@, Err("PeerTimedOut"))]
                          ELSE @[out]],
           !.pending_peers = [p \in { q \in DOMAIN @ : kept(q) # <<>> } |-> kept(p)],
           !.failed_peers = [p \in { q \in DOMAIN counted : ~unban(q) } |->
                               ban(counted[p], cfg, t)],
           !.timer = t + MinOf(wakes)]

\* NetworkBehaviour::poll as a function of the state: the commands found in
\* the channel are executed, the sweep runs, and the events of the libp2p
\* behaviour are injected.
kad_poll(K, cfg, t, cmds, evs) ==
    InjectAll(sweep(ExecuteAll(K, cmds, t), cfg, t), evs)

\* ------------------------------------------------------------- the state
EmptyTable == [k \in {} |-> 0]

\* What the last operation was and, for the properties below, what it did:
\* the registry it read, the ingest calls made with their outcomes, the
\* value poll returned (Some(event) for Ready(event), None for Pending),
\* whether a cleanup batch was in flight when poll came to its cleanup step,
\* the VMs the dispatch step offered to actors, the VMs it asked the pool to
\* recreate, the keys the cleanup step took out of the table, and the
\* actors whose finished execution it collected, in the order it met them,
\* and the key list it passed to batch_cleanup_data, if it made that call.
NoLast ==
    [op |-> "new", workers |-> NoWorkers, ingested |-> <<>>, result |-> NoneOpt,
     in_flight |-> FALSE, offered |-> {}, recreated |-> {}, evicted |-> <<>>,
     completed |-> <<>>, batch |-> NoneOpt]

PlumberNew ==
    /\ events = <<>>
    /\ actors = EmptyTable
    /\ vm_pool = [runtimes |-> [id \in VmIds |-> FALSE], creating |-> VmIds]
    /\ cleanup_future = NoneOpt

\* What the last step of the behaviour was: the operation, and for a poll
\* the commands it executed and the events it injected.
KLast(op, cmds, evs) == [op |-> op, cmds |-> cmds, events |-> evs]

\* The peers that are banned after a poll at instant t, each with the
\* instant of the poll that banned it: a peer that was banned before the
\* poll and still is keeps its instant.
BannedSince(since, failed, t) ==
    [x \in { y \in DOMAIN failed : IsSome(failed[y].ban) } |->
        IF x \in DOMAIN since THEN since[x] ELSE t]

\* Kademlia::new at instant 0
KademliaNew(cfg) ==
    /\ instant = 0
    /\ config = cfg
    /\ kademlia = [routing |-> [p \in KadPeers |-> <<>>], issued |-> <<>>]
    /\ queries = EmptyTable
    /\ pending_peers = EmptyTable
    /\ failed_peers = EmptyTable
    /\ timer = cfg.query_timeout
    /\ outlets = <<>>
    /\ klast = KLast("new", <<>>, <<>>)
    /\ banned_since = EmptyTable

\* The configuration of the tests (behaviour.rs, kad_config).
TestConfig == [query_timeout |-> 1, peer_fail_threshold |-> 1, ban_cooldown |-> 2]

Init ==
    /\ now = 0
    /\ PlumberNew
    /\ last = NoLast
    /\ KademliaNew(TestConfig)

RECURSIVE SumOver(_, _)
SumOver(f, S) ==
    IF S = {} THEN 0
    ELSE LET x == CHOOSE y \in S : TRUE IN f[x] + SumOver(f, S \ {x})

MayBeLocal(next_peers) ==
    Len(SelectSeq(next_peers, LAMBDA np : np = HostPeer \/ np \in Workers))

\* Particles waiting in mailboxes, and hops of finished executions that a
\* poll may still replay into mailboxes.
Queued ==
    SumOver([k \in DOMAIN actors |->
                Len(actors[k].mailbox)
                + (IF IsSome(actors[k].future)
                   THEN MayBeLocal(Unwrap(actors[k].future).next_peers)
                   ELSE 0)],
            DOMAIN actors)

\* The key a hop of `particle` to `peer` is replayed to when the peer is local.
HopKey(particle, peer) ==
    ActorKey(particle.signature, IF peer = HostPeer THEN Host ELSE peer)

HopKeys(particle, next_peers) ==
    { HopKey(particle, next_peers[i]) :
        i \in { j \in 1 .. Len(next_peers) :
                   next_peers[j] = HostPeer \/ next_peers[j] \in Workers } }

\* The keys in the table and those the finished executions may add.
Footprint ==
    DOMAIN actors \cup
    UNION { HopKeys(Unwrap(actors[k].future).particle,
                    Unwrap(actors[k].future).next_peers) :
              k \in { a \in DOMAIN actors : IsSome(actors[a].future) } }

\* ------------------------------------------------------------ the actions
\* Plumber::ingest called by the node, the registry being W
Ingest(particle, function, peer_scope, W) ==
    /\ Len(events) < MaxEvents
    /\ Queued < MaxQueued
    /\ Cardinality(Footprint \cup {ActorKey(particle.signature, peer_scope)})
          <= MaxActors
    /\ LET S == [events |-> events, actors |-> actors, workers |-> W]
           T == ingest(S, particle, function, peer_scope)
       IN  /\ events' = T.events
           /\ actors' = T.actors
           /\ last' = [NoLast EXCEPT
                         !.op = "ingest",
                         !.workers = W,
                         !.ingested = <<[particle |-> particle,
                                         function |-> function,
                                         peer_scope |-> peer_scope,
                                         outcome |-> IngestOutcome(S, particle,
                                                                   peer_scope)]>>]
    /\ UNCHANGED <<now, vm_pool, cleanup_future>>
    /\ UNCHANGED kad_vars

\* plumber.rs:283-326: gather effects and put VMs back
Gather(tbl, pool, ord, W) ==
    LET done == CompletedKeys(tbl, ord)
    IN  [actors |-> Drained(tbl),
         pool |-> ReturnRuntimes(pool, tbl, done),
         remote_effects |-> RemoteEffects(W, tbl, done),
         local_effects |-> LocalEffects(W, tbl, done),
         completed |-> done,
         recreated |-> { Unwrap(tbl[k].future).vm_id :
                           k \in { d \in SeqToSet(done) :
                                     Unwrap(tbl[d].future).status # "done" } }]

\* variant: the cleanup runs whether or not a batch is in flight
CleanupAlways(tbl, future, ord) ==
    LET keys == cleanup_keys(tbl, ord)
    IN  [actors |-> Retained(tbl, keys),
         future |-> IF keys # <<>> THEN CleanupLaunched(keys) ELSE future,
         keys |-> keys, batch |-> CleanupBatch(keys)]

\* plumber.rs:328-359: remove expired actors, unless a batch is in flight
Cleanup(tbl, future, ord) ==
    IF IsSome(future)
    THEN [actors |-> tbl, future |-> future, keys |-> <<>>, batch |-> NoneOpt]
    ELSE LET keys == cleanup_keys(tbl, ord)
         IN  [actors |-> Retained(tbl, keys), future |-> CleanupLaunched(keys),
              keys |-> keys, batch |-> CleanupBatch(keys)]

\* variant: the remote effects are never moved to the event queue
RouteWithoutRemote(D, G, C, in_flight, W) ==
    LET R == Reingest([S |-> [events |-> <<>>, actors |-> D.actors, workers |-> W],
                       log |-> <<>>],
                      LocalHops(G.local_effects))
        queue == R.S.events
    IN  [events |-> IF queue = <<>> THEN <<>> ELSE Tail(queue),
         actors |-> R.S.actors,
         vm_pool |-> D.pool,
         cleanup_future |-> C.future,
         last |-> [op |-> "poll",
                   workers |-> W,
                   ingested |-> R.log,
                   result |-> IF queue = <<>> THEN NoneOpt ELSE Some(Head(queue)),
                   in_flight |-> in_flight,
                   offered |-> SeqToSet(D.offers),
                   recreated |-> G.recreated,
                   evicted |-> C.keys,
                   completed |-> G.completed,
                   batch |-> C.batch]]

\* variant: the cleanup reports every actor it removes as ParticleExpired
RouteReportsEvictions(D, G, C, in_flight, W) ==
    LET R == Reingest([S |-> [events |-> <<>>, actors |-> D.actors, workers |-> W],
                       log |-> <<>>],
                      LocalHops(G.local_effects))
        queue == [i \in 1 .. Len(C.keys) |-> ParticleExpired(C.keys[i].signature)]
                    \o R.S.events \o G.remote_effects
    IN  [events |-> IF queue = <<>> THEN <<>> ELSE Tail(queue),
         actors |-> R.S.actors,
         vm_pool |-> D.pool,
         cleanup_future |-> C.future,
         last |-> [op |-> "poll",
                   workers |-> W,
                   ingested |-> R.log,
                   result |-> IF queue = <<>> THEN NoneOpt ELSE Some(Head(queue)),
                   in_flight |-> in_flight,
                   offered |-> SeqToSet(D.offers),
                   recreated |-> G.recreated,
                   evicted |-> C.keys,
                   completed |-> G.completed,
                   batch |-> C.batch]]

\* variant: poll returns the newest event of the queue (pop_back)
RoutePopsBack(D, G, C, in_flight, W) ==
    LET R == Reingest([S |-> [events |-> <<>>, actors |-> D.actors, workers |-> W],
                       log |-> <<>>],
                      LocalHops(G.local_effects))
        queue == R.S.events \o G.remote_effects
    IN  [events |-> IF queue = <<>> THEN <<>>
                    ELSE SubSeq(queue, 1, Len(queue) - 1),
         actors |-> R.S.actors,
         vm_pool |-> D.pool,
         cleanup_future |-> C.future,
         last |-> [op |-> "poll",
                   workers |-> W,
                   ingested |-> R.log,
                   result |-> IF queue = <<>> THEN NoneOpt
                              ELSE Some(queue[Len(queue)]),
                   in_flight |-> in_flight,
                   offered |-> SeqToSet(D.offers),
                   recreated |-> G.recreated,
                   evicted |-> C.keys,
                   completed |-> G.completed,
                   batch |-> C.batch]]

\* plumber.rs:400-416: replay the local effects, buffer the remote ones and
\* return the head of the queue
Route(D, G, C, in_flight, W) ==
    LET R == Reingest([S |-> [events |-> <<>>, actors |-> D.actors, workers |-> W],
                       log |-> <<>>],
                      LocalHops(G.local_effects))
        queue == R.S.events \o G.remote_effects
    IN  [events |-> IF queue = <<>> THEN <<>> ELSE Tail(queue),
         actors |-> R.S.actors,
         vm_pool |-> D.pool,
         cleanup_future |-> C.future,
         last |-> [op |-> "poll",
                   workers |-> W,
                   ingested |-> R.log,
                   result |-> IF queue = <<>> THEN NoneOpt ELSE Some(Head(queue)),
                   in_flight |-> in_flight,
                   offered |-> SeqToSet(D.offers),
                   recreated |-> G.recreated,
                   evicted |-> C.keys,
                   completed |-> G.completed,
                   batch |-> C.batch]]

\* plumber.rs:361-379 after the cleanup C
DispatchAfter(G, C, ord) ==
    Dispatch([actors |-> C.actors, pool |-> G.pool, offers |-> <<>>, stop |-> FALSE],
             SelectSeq(ord, LAMBDA k : k \in DOMAIN C.actors))

PollRoute(G, C, in_flight, ord, W) == Route(DispatchAfter(G, C, ord), G, C, in_flight, W)

PollCleanup(G, future1, ord, W) ==
    PollRoute(G, Cleanup(G.actors, future1, ord), IsSome(future1), ord, W)

\* Plumber::poll from plumber.rs:278 on: the plumber after the pass, and what
\* the pass did
poll(tbl, pool, future, ready, cleanup_ready, ord, W) ==
    PollCleanup(Gather(tbl, VmPoolPoll(pool, ready), ord, W),
                CleanupPolled(future, cleanup_ready), ord, W)

\* variant: poll without the return of plumber.rs:275, so that the pass over
\* the actors follows the pop
PollBufferedThenPass(ready) ==
    /\ events # <<>>
    /\ \E P \in { poll(actors, vm_pool, cleanup_future, ready, FALSE,
                        CHOOSE o \in Orders(DOMAIN actors) : TRUE, NoWorkers) } :
          /\ vm_pool' = P.vm_pool
          /\ actors' = P.actors
          /\ cleanup_future' = P.cleanup_future
          /\ events' = Tail(events) \o P.last.result \o P.events
          /\ last' = [P.last EXCEPT !.result = Some(Head(events))]
    /\ UNCHANGED now
    /\ UNCHANGED kad_vars

\* Plumber::poll when an event is buffered: plumber.rs:270-276.  The
\* creation futures in `ready` finish in vm_pool.poll.
PollBuffered(ready) ==
    /\ events # <<>>
    /\ vm_pool' = VmPoolPoll(vm_pool, ready)
    /\ events' = Tail(events)
    /\ last' = [NoLast EXCEPT !.op = "poll", !.result = Some(Head(events))]
    /\ UNCHANGED <<now, actors, cleanup_future>>
    /\ UNCHANGED kad_vars

\* Plumber::poll when no event is buffered: plumber.rs:270-417.  `ord` is the
\* order in which the actor table is iterated, `cleanup_ready` tells whether
\* the cleanup future is Ready when polled, W is the registry.
PollPass(ready, cleanup_ready, ord, W) ==
    /\ events = <<>>
    /\ cleanup_ready => IsSome(cleanup_future)
    /\ \E P \in { poll(actors, vm_pool, cleanup_future, ready, cleanup_ready, ord, W) } :
          /\ vm_pool' = P.vm_pool
          /\ actors' = P.actors
          /\ cleanup_future' = P.cleanup_future
          /\ events' = P.events
          /\ last' = P.last
    /\ UNCHANGED now
    /\ UNCHANGED kad_vars

\* The execution spawned by poll_next finishes and reports its next peers.
ExecComplete(key, next_peers) ==
    /\ key \in DOMAIN actors
    /\ IsSome(actors[key].future)
    /\ Unwrap(actors[key].future).status = "running"
    /\ Queued + MayBeLocal(next_peers) <= MaxQueued
    /\ Cardinality(Footprint
                    \cup HopKeys(Unwrap(actors[key].future).particle, next_peers))
          <= MaxActors
    /\ actors' = [actors EXCEPT ![key].future =
                     Some([Unwrap(@) EXCEPT !.status = "done",
                                            !.next_peers = next_peers])]
    /\ last' = [NoLast EXCEPT !.op = "complete"]
    /\ UNCHANGED <<now, events, vm_pool, cleanup_future>>
    /\ UNCHANGED kad_vars

\* The execution panics or is cancelled: its VM is lost.
ExecPanic(key) ==
    /\ key \in DOMAIN actors
    /\ IsSome(actors[key].future)
    /\ Unwrap(actors[key].future).status = "running"
    /\ actors' = [actors EXCEPT ![key].future =
                     Some([Unwrap(@) EXCEPT !.status = "lost"])]
    /\ last' = [NoLast EXCEPT !.op = "panic"]
    /\ UNCHANGED <<now, events, vm_pool, cleanup_future>>
    /\ UNCHANGED kad_vars

\* set_mock_time / the clock
Tick ==
    /\ now < Horizon
    /\ now' = now + 1
    /\ last' = [NoLast EXCEPT !.op = "tick"]
    /\ UNCHANGED <<events, actors, vm_pool, cleanup_future>>
    /\ UNCHANGED kad_vars

\* The registries an ingest to `peer_scope` can tell apart.
\* The overrides an ingest call can bring: the node itself sends its
\* particles with or without a handler, the network sends them without.
Overrides(particle) ==
    IF is_host(particle.init_peer_id) THEN { NoneOpt, Some("f") } ELSE { NoneOpt }

IngestRegistries(peer_scope) ==
    IF peer_scope \in Workers THEN WorkerRegistries ELSE { NoWorkers }

\* The registries a poll can tell apart: it reads the registry only for the
\* workers among the next peers of the finished executions.
PollRegistries ==
    IF \E k \in DOMAIN actors :
          /\ PollCompletedReady(actors[k])
          /\ \E i \in DOMAIN Unwrap(actors[k].future).next_peers :
                Unwrap(actors[k].future).next_peers[i] \in Workers
    THEN WorkerRegistries ELSE { NoWorkers }

Next ==
    \/ \E particle \in Particles, peer_scope \in PeerScope :
          \E function \in Overrides(particle), W \in IngestRegistries(peer_scope) :
             Ingest(particle, function, peer_scope, W)
    \/ \E ready \in SUBSET vm_pool.creating : PollBuffered(ready)
    \/ \E ready \in SUBSET vm_pool.creating, cleanup_ready \in BOOLEAN,
          ord \in Orders(DOMAIN actors), W \in PollRegistries :
          PollPass(ready, cleanup_ready, ord, W)
    \/ \E key \in ActorKeys, next_peers \in NextPeerLists :
          ExecComplete(key, next_peers)
    \/ \E key \in ActorKeys : ExecPanic(key)
    \/ Tick

Spec == Init /\ [][Next]_vars

\* ------------------------------------------------- Kademlia: the actions
KadState ==
    [kademlia |-> kademlia, queries |-> queries, pending_peers |-> pending_peers,
     failed_peers |-> failed_peers, timer |-> timer, outlets |-> outlets]

Install(K) ==
    /\ kademlia' = K.kademlia
    /\ queries' = K.queries
    /\ pending_peers' = K.pending_peers
    /\ failed_peers' = K.failed_peers
    /\ timer' = K.timer
    /\ outlets' = K.outlets

KadInit ==
    /\ now = 0
    /\ PlumberNew
    /\ last = NoLast
    /\ \E cfg \in Configs : KademliaNew(cfg)

\* The batches of commands a poll can find in the channel: each command that
\* asks for a reply brought a channel of its own.
CommandBatches ==
    { cmds \in UNION { [1 .. n -> Commands] : n \in 0 .. KadMaxBatch } :
        Len(outlets) + Len(SelectSeq(cmds, HasOutlet)) <= KadMaxCalls }

\* A direct call of Kademlia::discover_peer with a new reply channel.
DiscoverPeer(peer) ==
    /\ Len(outlets) < KadMaxCalls
    /\ Install(execute(KadState, DiscoverPeerCmd(peer), instant))
    /\ klast' = KLast("discover_peer", <<>>, <<>>)
    /\ UNCHANGED <<instant, config, banned_since>>
    /\ UNCHANGED vars

\* A direct call of Kademlia::bootstrap with a new reply channel.
Bootstrap ==
    /\ Len(outlets) < KadMaxCalls
    /\ Install(execute(KadState, BootstrapCmd, instant))
    /\ klast' = KLast("bootstrap", <<>>, <<>>)
    /\ UNCHANGED <<instant, config, banned_since>>
    /\ UNCHANGED vars

\* A direct call of Kademlia::remote_neighborhood with a new reply channel.
RemoteNeighborhood ==
    /\ Len(outlets) < KadMaxCalls
    /\ Install(remote_neighborhood(
                  [KadState EXCEPT !.outlets = Append(@, Outlet("RemoteNeighborhood", "-"))],
                  Len(outlets) + 1))
    /\ klast' = KLast("remote_neighborhood", <<>>, <<>>)
    /\ UNCHANGED <<instant, config, banned_since>>
    /\ UNCHANGED vars

\* A direct call of Kademlia::add_contact.
AddContact(peer) ==
    /\ Install(execute(KadState, AddContactCmd(peer), instant))
    /\ klast' = KLast("add_contact", <<>>, <<>>)
    /\ UNCHANGED <<instant, config, banned_since>>
    /\ UNCHANGED vars

\* NetworkBehaviour::poll: `cmds` are the commands in the channel and `evs`
\* the events the libp2p behaviour has ready.
KadPoll(cmds, evs) ==
    /\ Install(kad_poll(KadState, config, instant, cmds, evs))
    /\ klast' = KLast("poll", cmds, evs)
    /\ banned_since' = BannedSince(banned_since, failed_peers', instant)
    /\ UNCHANGED <<instant, config>>
    /\ UNCHANGED vars

\* The clock
KadTick ==
    /\ instant < KadMaxTime
    /\ instant' = instant + 1
    /\ klast' = KLast("tick", <<>>, <<>>)
    /\ UNCHANGED <<config, kademlia, queries, pending_peers, failed_peers, timer,
                   outlets, banned_since>>
    /\ UNCHANGED vars

KadNext ==
    \/ \E peer \in Wanted : DiscoverPeer(peer)
    \/ Bootstrap
    \/ RemoteNeighborhood
    \/ \E peer \in KadPeers : AddContact(peer)
    \/ \E cmds \in CommandBatches :
          \E evs \in EventBatches(ExecuteAll(KadState, cmds, instant).kademlia,
                                  KadMaxBatch - Len(cmds)) :
             KadPoll(cmds, evs)
    \/ KadTick

KadSpec == KadInit /\ [][KadNext]_kad_vars

\* The discovery of a peer under fair scheduling: the behaviour is built
\* with the configuration of the tests, contacts are added and peers are
\* looked up by direct calls, and the behaviour is polled again and again
\* (by the swarm, and by the timer the sweep arms) while time passes.
KadFairInit ==
    /\ now = 0
    /\ PlumberNew
    /\ last = NoLast
    /\ KademliaNew(TestConfig)

KadFairNext ==
    \/ \E peer \in Wanted : DiscoverPeer(peer)
    \/ \E peer \in Wanted : AddContact(peer)
    \/ \E evs \in EventBatches(kademlia, KadMaxBatch) : KadPoll(<<>>, evs)
    \/ KadTick

KadFairSpec ==
    /\ KadFairInit
    /\ [][KadFairNext]_kad_vars
    /\ WF_kad_vars(KadPoll(<<>>, <<>>))
    /\ WF_kad_vars(KadTick)

\* --------------------------------------- the plumber under fair scheduling
\* A fair run of the plumber: particles 1 and 3 are sent to the host scope,
\* an execution reports no next peer or the host and a remote peer, and the
\* plumber is polled again and again while the clock runs.
FairParticles == { Particle(1, TRUE), Particle(3, TRUE) }
FairNextPeerLists == { <<>>, <<HostPeer, RemotePeer>> }
FairKeys == { ActorKey(p.signature, Host) : p \in FairParticles }

\* The execution of the actor for `key` comes to its end, one way or another.
ExecFinish(key) ==
    \/ \E next_peers \in FairNextPeerLists : ExecComplete(key, next_peers)
    \/ ExecPanic(key)

\* A pass of poll over the actors in which the cleanup batch in flight, if
\* there is one, has finished would change the state of the plumber.
PassChanges ==
    \E ready \in SUBSET vm_pool.creating, ord \in Orders(DOMAIN actors) :
        \E P \in { poll(actors, vm_pool, cleanup_future, ready,
                        IsSome(cleanup_future), ord, NoWorkers) } :
            <<P.vm_pool, P.actors, P.cleanup_future, P.events, P.last>>
               # <<vm_pool, actors, cleanup_future, events, last>>

\* Such a pass can be taken: poll comes to it when no event is buffered.
PassDue == events = <<>> /\ PassChanges

\* The step is such a pass.
PassTaken == events = <<>> /\ last'.op = "poll" /\ ~last'.in_flight

PlumberFairNext ==
    \/ \E particle \in FairParticles : Ingest(particle, NoneOpt, Host, NoWorkers)
    \/ \E ready \in SUBSET vm_pool.creating : PollBuffered(ready)
    \/ \E ready \in SUBSET vm_pool.creating, cleanup_ready \in BOOLEAN,
          ord \in Orders(DOMAIN actors) :
          PollPass(ready, cleanup_ready, ord, NoWorkers)
    \/ \E key \in FairKeys : ExecFinish(key)
    \/ Tick

\* Repeated polling: poll is called again whenever a call would do something,
\* be it to return a buffered event or to make its pass over the actors (the
\* weak fairness of the pass is written with PassDue, which is what ENABLED
\* of the pass amounts to).  The clock runs, every execution ends, and the
\* cleanup batch has ended when a fair pass polls it.
PlumberFairSpec ==
    /\ Init
    /\ [][PlumberFairNext]_vars
    /\ WF_vars(\E ready \in SUBSET vm_pool.creating : PollBuffered(ready))
    /\ ([]<>~PassDue \/ []<><<PassTaken>>_vars)
    /\ WF_vars(Tick)
    /\ \A key \in FairKeys : WF_vars(ExecFinish(key))

\* ------------------------------------------------------------ scenarios
\* Spec and KadSpec let the environment do everything it can.  The runs
\* below are the parts of them that single properties are about; every one
\* of their steps is a step of Spec or of KadSpec.

\* The plumber with the particles of the fair run and the host scope only,
\* without any assumption on scheduling.
PlumberHostSpec == Init /\ [][PlumberFairNext]_vars

\* The plumber with a worker: a badly signed particle of a remote peer and
\* the host's own particle are sent to the host scope and to the worker
\* under every registry, with or without a handler, and an execution names
\* the worker among its next peers.
WorkerParticles == { Particle(1, FALSE), Particle(3, TRUE) }

PlumberWorkerNext ==
    \/ \E particle \in WorkerParticles, peer_scope \in PeerScope :
          \E function \in Overrides(particle), W \in IngestRegistries(peer_scope) :
             Ingest(particle, function, peer_scope, W)
    \/ \E ready \in SUBSET vm_pool.creating : PollBuffered(ready)
    \/ \E ready \in SUBSET vm_pool.creating, cleanup_ready \in BOOLEAN,
          ord \in Orders(DOMAIN actors), W \in PollRegistries :
          PollPass(ready, cleanup_ready, ord, W)
    \/ \E key \in ActorKeys,
          next_peers \in { <<HostPeer, "w1">>, <<"w1", RemotePeer>> } :
          ExecComplete(key, next_peers)
    \/ Tick

PlumberWorkerSpec == Init /\ [][PlumberWorkerNext]_vars

\* What a poll finds ready when the swarm polls the behaviour after every
\* event of the libp2p behaviour: nothing, or one event.
SingleEvents(kad) == { <<>> } \cup { <<e>> : e \in KadEvents(kad) }

\* The discovery of a peer: the peer is looked up by direct calls and by
\* commands, it is added as a contact, and each poll finds one command, one
\* event or nothing.
KadDiscoveryNext ==
    \/ \E peer \in Wanted : DiscoverPeer(peer)
    \/ \E peer \in Wanted : AddContact(peer)
    \/ \E evs \in SingleEvents(kademlia) : KadPoll(<<>>, evs)
    \/ \E peer \in Wanted :
          /\ Len(outlets) < KadMaxCalls
          /\ KadPoll(<<DiscoverPeerCmd(peer)>>, <<>>)
    \/ KadTick

KadDiscoverySpec == KadInit /\ [][KadDiscoveryNext]_kad_vars

\* The requests that are answered by a query of their own: bootstrap and
\* the neighbourhood of a key, by direct calls, with contacts added and each
\* poll finding one event or nothing.
KadRequestNext ==
    \/ Bootstrap
    \/ RemoteNeighborhood
    \/ \E peer \in KadPeers : AddContact(peer)
    \/ \E evs \in SingleEvents(kademlia) : KadPoll(<<>>, evs)
    \/ KadTick

KadRequestSpec == KadInit /\ [][KadRequestNext]_kad_vars

\* ------------------------------------------------------------ properties
\* The step just taken is an ingest call from outside, of particle
\* IngestedParticle to scope IngestedScope under the registry last'.workers.
IngestStep == last'.op = "ingest"
IngestedParticle == last'.ingested[1].particle
IngestedScope == last'.ingested[1].peer_scope
IngestedKey == ActorKey(IngestedParticle.signature, IngestedScope)

\* The step just taken is a poll that found an event buffered, or one that
\* found none and made its pass over the actors.
PollBufferedStep == last'.op = "poll" /\ events # <<>>
PollPassStep == last'.op = "poll" /\ events = <<>>

DeadlinePassed(particle, now_ms) == now_ms >= particle.timestamp + particle.ttl
KeyDeadlinePassed(key, now_ms) ==
    now_ms >= TimestampOf(key.signature) + TtlOf(key.signature)

\* The step leaves the event queue and the actor table as they were.
Dropped == events' = events /\ actors' = actors

\* The step puts IngestedParticle at the end of the mailbox of the actor for
\* IngestedKey, creating the actor if the table had none, and does nothing else.
AdmittedToMailbox ==
    /\ events' = events
    /\ DOMAIN actors' = DOMAIN actors \cup {IngestedKey}
    /\ \A k \in DOMAIN actors : k # IngestedKey => actors'[k] = actors[k]
    /\ actors'[IngestedKey].mailbox =
          Append(IF IngestedKey \in DOMAIN actors THEN actors[IngestedKey].mailbox
                 ELSE <<>>,
                 IngestedParticle)
    /\ IngestedKey \in DOMAIN actors =>
          actors'[IngestedKey].future = actors[IngestedKey].future

\* C1: ingest of a particle whose deadline has passed appends exactly one
\* ParticleExpired event with the particle's id and leaves the actor table
\* alone; a poll that finds events buffered returns the oldest one and leaves
\* the table alone; and no step, whatever the time, adds an actor for a
\* signature whose deadline has passed.
C1_ExpiredAtIngestYieldsOneError ==
    [][ /\ (IngestStep /\ DeadlinePassed(IngestedParticle, now)) =>
              /\ events' = Append(events, ParticleExpired(IngestedParticle.id))
              /\ actors' = actors
        /\ PollBufferedStep =>
              /\ last'.result = Some(Head(events))
              /\ events' = Tail(events)
              /\ actors' = actors
        /\ \A k \in DOMAIN actors' \ DOMAIN actors : ~KeyDeadlinePassed(k, now')
      ]_vars

\* An expired particle was ingested: its error is the newest event and the
\* table holds no actor.
C1_Witness ==
    /\ last.op = "ingest"
    /\ DeadlinePassed(last.ingested[1].particle, now)
    /\ events # <<>>
    /\ events[Len(events)] = ParticleExpired(last.ingested[1].particle.id)
    /\ actors = EmptyTable

\* C2: ingest of a particle whose deadline has not passed and whose
\* signature does not verify appends exactly one SignatureVerificationFailed
\* event with the particle's id, creates no actor and changes no mailbox.
C2_BadSignatureYieldsOneError ==
    [][ (IngestStep /\ ~DeadlinePassed(IngestedParticle, now)
                    /\ ~IngestedParticle.valid) =>
            /\ events' = Append(events,
                                SignatureVerificationFailed(IngestedParticle.id))
            /\ actors' = actors
      ]_vars

C2_Witness ==
    /\ last.op = "ingest"
    /\ ~last.ingested[1].particle.valid
    /\ ~DeadlinePassed(last.ingested[1].particle, now)
    /\ events # <<>>
    /\ events[Len(events)].type = "SignatureVerificationFailed"

\* The initiator of the ingested particle is the host or a management peer.
Privileged == IngestedParticle.init_peer_id \in {HostPeer, ManagementPeer}

\* A live, correctly signed particle is ingested to a worker scope.
WorkerIngestStep ==
    /\ IngestStep
    /\ ~DeadlinePassed(IngestedParticle, now)
    /\ IngestedParticle.valid
    /\ IngestedScope \in Workers

ActorAvailable ==
    IngestedKey \in DOMAIN actors \/ IngestedScope \in last'.workers.registered

AdmittedKeys ==
    { ActorKey(last'.ingested[i].particle.signature, last'.ingested[i].peer_scope) :
        i \in { j \in 1 .. Len(last'.ingested) :
                   last'.ingested[j].outcome = "Admitted" } }

\* Every particle an actor holds, queued or executing, carries the signature
\* of the actor's key.
KeyedBySignature ==
    \A k \in DOMAIN actors :
        /\ \A i \in 1 .. Len(actors[k].mailbox) :
              actors[k].mailbox[i].signature = k.signature
        /\ IsSome(actors[k].future) =>
              Unwrap(actors[k].future).particle.signature = k.signature

\* C4: the actor table is keyed by (signature, peer_scope), one actor per
\* key holding only particles of that signature; a step adds actors only for
\* keys admitted in that step, so the table never holds more actors than
\* distinct pairs were admitted; and admitting a particle whose key already
\* has an actor leaves the set of actors as it was and appends the particle
\* to that actor's mailbox, keeping its execution and its deadline.
C4_OneActorPerKey ==
    /\ [](DOMAIN actors \subseteq ActorKeys /\ KeyedBySignature)
    /\ [][ /\ DOMAIN actors' \ DOMAIN actors \subseteq AdmittedKeys
           /\ (IngestStep /\ IngestedKey \in DOMAIN actors
                          /\ last'.ingested[1].outcome = "Admitted") =>
                 /\ AdmittedToMailbox
                 /\ DOMAIN actors' = DOMAIN actors
                 /\ actors'[IngestedKey].deadline = actors[IngestedKey].deadline
         ]_vars

\* A particle was admitted to an actor that was already there, executing an
\* earlier particle of the same signature.
C4_Witness ==
    /\ last.op = "ingest"
    /\ last.ingested[1].outcome = "Admitted"
    /\ LET key == ActorKey(last.ingested[1].particle.signature,
                           last.ingested[1].peer_scope)
       IN  /\ key \in DOMAIN actors
           /\ IsSome(actors[key].future)
           /\ actors[key].mailbox = <<last.ingested[1].particle>>
           /\ Cardinality(DOMAIN actors) = 1

ExecutingActors == { k \in DOMAIN actors : actors[k].future # <<>> }

\* C5: in every reachable state the VMs idle in the pool, the actors
\* holding an execution and the VM slots being recreated add up to pool_size.
C5_VmConservation ==
    Cardinality({ id \in VmIds : vm_pool.runtimes[id] })
      + Cardinality(ExecutingActors)
      + Cardinality(vm_pool.creating) = PoolSize

\* A poll handed a panicked execution's VM to the pool for recreation while
\* another actor goes on executing.
C5_Witness ==
    /\ last.op = "poll"
    /\ vm_pool.creating # {}
    /\ ExecutingActors # {}
    /\ Cardinality({ id \in VmIds : vm_pool.runtimes[id] }) = 0

\* The executing actors hold pairwise different VMs, none of them idle in
\* the pool or being recreated.
VmsHeldOnce ==
    \A k \in ExecutingActors :
        /\ Unwrap(actors[k].future).vm_id \notin
              { id \in VmIds : vm_pool.runtimes[id] } \cup vm_pool.creating
        /\ \A k2 \in ExecutingActors :
              Unwrap(actors[k2].future).vm_id = Unwrap(actors[k].future).vm_id
                 => k2 = k

Running(tbl, k) ==
    k \in DOMAIN tbl /\ tbl[k].future # <<>> /\ tbl[k].future[1].status = "running"

\* C6: no vm_id is held by two actors; an execution that is running is
\* replaced by no ingest and no poll; and a VM the dispatch loop offers to an
\* actor whose execution is running is not consumed: the actor keeps the
\* execution it had and the VM is idle in the pool after the poll unless a
\* later offer of the same poll consumed it.
C6_OneExecutionPerActor ==
    /\ []VmsHeldOnce
    /\ [][ /\ \A k \in DOMAIN actors :
                 (Running(actors, k) /\ last'.op \in {"ingest", "poll"}) =>
                     /\ k \in DOMAIN actors'
                     /\ actors'[k].future = actors[k].future
           /\ PollPassStep =>
                 \A o \in last'.offered :
                     Running(actors, o.key) =>
                        /\ ~o.consumed
                        /\ \/ vm_pool'.runtimes[o.vm_id]
                           \/ \E o2 \in last'.offered :
                                 o2.vm_id = o.vm_id /\ o2.consumed
         ]_vars

\* A poll offered a VM to an actor that was executing, and the VM is back
\* in the pool.
C6_Witness ==
    /\ last.op = "poll"
    /\ \E o \in last.offered :
          /\ ~o.consumed
          /\ Running(actors, o.key)
          /\ vm_pool.runtimes[o.vm_id]

\* C7: the deadline of a particle is expired at `now` exactly when
\* now >= timestamp + ttl.  Ingest, which asks Deadline::is_expired first,
\* answers with ParticleExpired exactly in that case: a particle with
\* timestamp = now and ttl = 1 passes the check at now and fails it from
\* now + 1 on, and a particle whose timestamp + ttl is below now fails it.
C7_ExpiredExactlyFromDeadline ==
    [][ IngestStep =>
          /\ is_expired(Deadline(IngestedParticle), now)
                <=> DeadlinePassed(IngestedParticle, now)
          /\ (events' = Append(events, ParticleExpired(IngestedParticle.id)))
                <=> DeadlinePassed(IngestedParticle, now)
          /\ (IngestedParticle.timestamp = now /\ IngestedParticle.ttl = 1) =>
                ParticleExpired(IngestedParticle.id) \notin SeqToSet(events')
          /\ IngestedParticle.timestamp + IngestedParticle.ttl < now =>
                events' = Append(events, ParticleExpired(IngestedParticle.id))
      ]_vars

\* A particle with ttl = 1 is ingested one tick after its timestamp, the
\* first instant at which it is expired.
C7_Witness ==
    /\ last.op = "ingest"
    /\ last.ingested[1].particle.ttl = 1
    /\ last.ingested[1].particle.timestamp + 1 = now
    /\ events # <<>>
    /\ events[Len(events)] = ParticleExpired(last.ingested[1].particle.id)

\* The actor for key k is in the table, has executed what it was sent (its
\* mailbox is empty and it holds no execution, so its VM is back in the pool)
\* and its deadline has passed.
IdleExpired(k) ==
    /\ k \in DOMAIN actors
    /\ actors[k].mailbox = <<>>
    /\ actors[k].future = <<>>
    /\ now >= actors[k].deadline.timestamp + actors[k].deadline.ttl

NotYetExpired(k) ==
    /\ k \in DOMAIN actors
    /\ now < actors[k].deadline.timestamp + actors[k].deadline.ttl

\* No execution has finished that the poll would collect.
NothingFinished ==
    \A k \in DOMAIN actors : actors[k].future # <<>> => Running(actors, k)

\* C8 as stated: a poll that finds no event buffered and no cleanup in
\* flight removes every actor that has finished executing and whose deadline
\* has passed; it returns Pending when no execution has finished; and no poll
\* removes an actor before its deadline.
C8_Original ==
    [][ /\ (PollPassStep /\ ~last'.in_flight) =>
              \A k \in DOMAIN actors : IdleExpired(k) => k \notin DOMAIN actors'
        /\ (PollPassStep /\ NothingFinished) =>
              last'.result = NoneOpt /\ events' = <<>>
        /\ last'.op = "poll" =>
              \A k \in DOMAIN actors : NotYetExpired(k) => k \in DOMAIN actors'
      ]_vars

\* C8 amended: a poll that finds no event buffered and no cleanup in flight
\* removes the actors that have finished executing and whose deadline has
\* passed, unless it has removed MAX_CLEANUP_KEYS_SIZE actors already, and
\* never removes more than MAX_CLEANUP_KEYS_SIZE actors;
\* a poll that finds an event buffered or a cleanup in flight removes none;
\* a poll returns Pending when it found no event buffered and no execution
\* finished; and no step removes an actor before its deadline or while its
\* execution is running.
C8_ExpiredIdleActorsRemoved ==
    [][ /\ (PollPassStep /\ ~last'.in_flight) =>
              /\ \/ \A k \in DOMAIN actors : IdleExpired(k) => k \notin DOMAIN actors'
                 \/ Cardinality(DOMAIN actors \ DOMAIN actors') = MAX_CLEANUP_KEYS_SIZE
              /\ Cardinality(DOMAIN actors \ DOMAIN actors') <= MAX_CLEANUP_KEYS_SIZE
        /\ (PollBufferedStep \/ (PollPassStep /\ last'.in_flight)) =>
              DOMAIN actors \subseteq DOMAIN actors'
        /\ (PollPassStep /\ NothingFinished) =>
              last'.result = NoneOpt /\ events' = <<>>
        /\ \A k \in DOMAIN actors :
              (NotYetExpired(k) \/ Running(actors, k)) => k \in DOMAIN actors'
      ]_vars

\* Time went past the deadline of the only actor, which was idle: the poll
\* removed it, launched the cleanup of its data and returned Pending.
C8_Witness ==
    /\ last.op = "poll"
    /\ ~last.in_flight
    /\ cleanup_future # <<>>
    /\ actors = EmptyTable
    /\ last.result = NoneOpt
    /\ events = <<>>

\* The scope a next peer resolves to under the registry of the step, as a
\* set: empty for a peer that is not local.
LocalScopesOf(peer) ==
    IF peer = HostPeer THEN {Host}
    ELSE IF peer \in last'.workers.registered THEN {peer}
    ELSE {}

FinishedKeys ==
    { k \in DOMAIN actors : actors[k].future # <<>> /\ ~Running(actors, k) }

\* How many next peers of the finished executions of `particle` resolve to
\* the scope sc, and how many ingest calls of the step were for that pair.
LocalHopsDue(particle, sc) ==
    Cardinality(UNION {
        { <<k, i>> : i \in { j \in 1 .. Len(actors[k].future[1].next_peers) :
                               sc \in LocalScopesOf(actors[k].future[1].next_peers[j]) } } :
        k \in { f \in FinishedKeys : actors[f].future[1].particle = particle } })

IngestCalls(particle, sc) ==
    Cardinality({ i \in 1 .. Len(last'.ingested) :
                     /\ last'.ingested[i].particle = particle
                     /\ last'.ingested[i].peer_scope = sc })

\* The events the step produced: the one it returned and those it buffered.
EventsProduced == SeqToSet(last'.result) \cup SeqToSet(events')

\* C9: the poll that collects the finished executions calls ingest, before
\* it returns, once for every next peer that resolves to a local scope, with
\* the particle of that execution and that scope, and makes no other ingest
\* call; and no RemoteRoutingEffects it emits names a peer that resolves to a
\* local scope.
C9_LocalHopsReingested ==
    [][ PollPassStep =>
          /\ \A particle \in Particles, sc \in PeerScope :
                IngestCalls(particle, sc) = LocalHopsDue(particle, sc)
          /\ \A e \in EventsProduced :
                e.type = "RemoteRoutingEffects" =>
                   \A i \in 1 .. Len(e.next_peers) :
                      LocalScopesOf(e.next_peers[i]) = {}
      ]_vars

\* An execution finished with the host and a worker of this node as its
\* next peers: the poll admitted the particle to the actors of both scopes.
C9_Witness ==
    /\ last.op = "poll"
    /\ Len(last.ingested) = 2
    /\ { last.ingested[1].peer_scope, last.ingested[2].peer_scope } = {Host, "w1"}
    /\ \A i \in 1 .. 2 :
          /\ last.ingested[i].outcome = "Admitted"
          /\ last.ingested[i].particle = last.ingested[1].particle
          /\ ActorKey(last.ingested[i].particle.signature,
                      last.ingested[i].peer_scope) \in DOMAIN actors
    /\ last.result = NoneOpt

\* The VMs the executions collected by the step hold, by how they ended.
VmsOf(status) ==
    { actors[k].future[1].vm_id :
        k \in { a \in DOMAIN actors :
                   actors[a].future # <<>> /\ actors[a].future[1].status = status } }

\* C10: get_vm followed by put_vm of the same vm_id gives back the pool as
\* it was, free_vms() included; and the VMs idle in the pool after a poll are
\* those idle before, those whose creation finished and those of the
\* executions that completed, less the ones an offer of the dispatch loop
\* consumed: an offer that was not consumed leaves the pool as it was.
C10_UnconsumedVmReturned ==
    /\ [](IdleVms(vm_pool) # {} =>
            /\ put_vm(get_vm(vm_pool).pool, Unwrap(get_vm(vm_pool).vm)) = vm_pool
            /\ free_vms(get_vm(vm_pool).pool) = free_vms(vm_pool) - 1
            /\ free_vms(put_vm(get_vm(vm_pool).pool, Unwrap(get_vm(vm_pool).vm)))
                  = free_vms(vm_pool))
    /\ [][ PollPassStep =>
             /\ IdleVms(vm_pool') =
                   (IdleVms(vm_pool) \cup (vm_pool.creating \ vm_pool'.creating)
                       \cup VmsOf("done"))
                   \ { o.vm_id : o \in { x \in last'.offered : x.consumed } }
             /\ \A o \in last'.offered :
                   (actors[o.key].mailbox = <<>> \/ Running(actors, o.key))
                      => ~o.consumed
         ]_vars

\* A poll offered a VM to an actor with an empty mailbox and nothing in
\* flight: the VM is idle in the pool again.
C10_Witness ==
    /\ last.op = "poll"
    /\ \E o \in last.offered :
          /\ ~o.consumed
          /\ o.key \in DOMAIN actors
          /\ actors[o.key].mailbox = <<>>
          /\ actors[o.key].future = <<>>
          /\ vm_pool.runtimes[o.vm_id]
          /\ free_vms(vm_pool) = PoolSize

\* The next peers of the execution the actor k has finished that do not
\* resolve to a local scope under the registry of the step.
RemotePeersOf(k) ==
    SelectSeq(actors[k].future[1].next_peers, LAMBDA np : LocalScopesOf(np) = {})

\* The step takes the finished execution out of the actor k.
Collects(k) ==
    /\ k \in FinishedKeys
    /\ k \in DOMAIN actors' => actors'[k].future # actors[k].future

\* C11 as stated, seen from outside poll: when the poll that collects the
\* completion of p1 starts the next particle of the same actor, the
\* RemoteRoutingEffects of p1 has been returned by poll; it is not left
\* waiting in the event queue while p2 executes.
C11_Original ==
    [][ PollPassStep =>
          \A o \in last'.offered :
              (o.consumed /\ FinishedKeys = {o.key}) =>
                 \A i \in 1 .. Len(events') :
                    events'[i].type # "RemoteRoutingEffects"
      ]_vars

\* C11 amended: an actor starts its next particle, the head of its mailbox,
\* only when it holds no running execution, so p2 begins no earlier than the
\* poll that collects the completion of p1; that poll is entered with an
\* empty event queue, performs the local re-ingests of p1 and puts the
\* RemoteRoutingEffects of p1 on the event queue before it returns, where it
\* is returned by this poll or, behind events buffered before it, by a later
\* one; the completion of p2 is collected only after the queue has drained.
C11_EffectsBeforeNextCompletion ==
    [][ /\ \A k \in DOMAIN actors :
              (k \in DOMAIN actors' /\ Running(actors', k) /\ ~Running(actors, k)) =>
                 /\ PollPassStep
                 /\ actors[k].mailbox # <<>>
                 /\ actors'[k].future[1].particle = Head(actors[k].mailbox)
        /\ \A k \in DOMAIN actors : Collects(k) => PollPassStep /\ events = <<>>
        /\ PollPassStep =>
              \A k \in FinishedKeys :
                 /\ Collects(k)
                 /\ RemotePeersOf(k) # <<>> =>
                       RemoteRoutingEffects(actors[k].future[1].particle,
                                            RemotePeersOf(k)) \in EventsProduced
                 /\ \A i \in 1 .. Len(actors[k].future[1].next_peers) :
                       \A sc \in LocalScopesOf(actors[k].future[1].next_peers[i]) :
                          IngestCalls(actors[k].future[1].particle, sc) >= 1
      ]_vars

\* No deadline has passed, so no actor was ever removed: the only actor
\* finished a particle, and the poll that returned its routing effect also
\* started the particle that was waiting in its mailbox.
C11_Witness ==
    /\ last.op = "poll"
    /\ now = 0
    /\ Cardinality(DOMAIN actors) = 1
    /\ IsSome(last.result)
    /\ Unwrap(last.result).type = "RemoteRoutingEffects"
    /\ \E o \in last.offered :
          /\ o.consumed
          /\ Running(actors, o.key)
          /\ Unwrap(last.result).particle_id = actors[o.key].future[1].particle.id

\* C12 as stated: the poll that removes an expired actor puts a
\* ParticleExpired event with the id of the actor's particle on the event
\* queue (or returns it).
C12_Original ==
    [][ PollPassStep =>
          \A k \in DOMAIN actors \ DOMAIN actors' :
              ParticleExpired(k.signature) \in EventsProduced
      ]_vars

ExpiredCalls ==
    { last'.ingested[i].particle.id :
        i \in { j \in 1 .. Len(last'.ingested) :
                   DeadlinePassed(last'.ingested[j].particle, now) } }

\* C12 amended: the cleanup step removes an expired actor silently.  The
\* ParticleExpired events a poll produces are those of the local re-ingests
\* it made of particles whose deadline has passed, one per such call; a poll
\* that re-ingests nothing produces no ParticleExpired, whatever it evicts.
C12_EvictionIsSilent ==
    [][ PollPassStep =>
          /\ \A e \in EventsProduced :
                e.type = "ParticleExpired" => e.particle_id \in ExpiredCalls
          /\ Cardinality({ i \in 1 .. Len(events') :
                              events'[i].type = "ParticleExpired" })
               + (IF IsSome(last'.result)
                     /\ Unwrap(last'.result).type = "ParticleExpired"
                  THEN 1 ELSE 0)
               = Cardinality({ j \in 1 .. Len(last'.ingested) :
                                  DeadlinePassed(last'.ingested[j].particle, now) })
      ]_vars

\* A poll removed an expired actor, launched the cleanup of its data and
\* returned Pending with nothing buffered, while another expired actor was
\* left for a later pass.
C12_Witness ==
    /\ last.op = "poll"
    /\ ~last.in_flight
    /\ cleanup_future # <<>>
    /\ last.ingested = <<>>
    /\ last.result = NoneOpt
    /\ events = <<>>
    /\ Cardinality(DOMAIN actors) = 1

\* C13: a poll that collects an execution whose VM was lost asks the pool
\* to recreate exactly that vm_id: the slot is being created and not idle
\* after the poll, no offer of the dispatch loop hands that VM out, and the
\* slots newly in creation are those of the lost VMs; when every execution
\* collected was lost, the poll makes no ingest call, returns Pending and
\* buffers no event.
C13_LostVmRecreated ==
    [][ PollPassStep =>
          /\ last'.recreated = VmsOf("lost")
          /\ \A id \in VmsOf("lost") :
                /\ id \in vm_pool'.creating
                /\ ~vm_pool'.runtimes[id]
                /\ \A o \in last'.offered : o.vm_id # id
          /\ vm_pool'.creating \ vm_pool.creating = VmsOf("lost")
          /\ (FinishedKeys # {} /\ VmsOf("done") = {}) =>
                /\ last'.ingested = <<>>
                /\ last'.result = NoneOpt
                /\ events' = <<>>
      ]_vars

\* A poll collected a panicked execution: its VM slot is in creation, the
\* actor is idle again and nothing was reported.
C13_Witness ==
    /\ last.op = "poll"
    /\ last.recreated # {}
    /\ last.recreated \subseteq vm_pool.creating
    /\ last.result = NoneOpt
    /\ events = <<>>
    /\ ExecutingActors = {}
    /\ actors # EmptyTable

\* C14: at most one batch_cleanup_data future is in flight.  A poll that
\* finds the batch pending keeps that future, launches nothing and removes no
\* actor, expired or not; a poll launches a batch exactly when it removes
\* actors, which it does only with no batch pending or after finding the
\* previous one ready; and no other step touches the cleanup future or
\* removes an actor.
C14_OneCleanupInFlight ==
    [][ /\ (PollPassStep /\ last'.in_flight) =>
              /\ cleanup_future # <<>>
              /\ cleanup_future' = cleanup_future
              /\ DOMAIN actors \subseteq DOMAIN actors'
        /\ (PollPassStep /\ ~last'.in_flight) =>
              (cleanup_future' # <<>> <=> DOMAIN actors \ DOMAIN actors' # {})
        /\ ~PollPassStep =>
              /\ cleanup_future' = cleanup_future
              /\ DOMAIN actors \subseteq DOMAIN actors'
      ]_vars

\* A batch is pending and the poll left an expired idle actor in the table.
C14_Witness ==
    /\ last.op = "poll"
    /\ last.in_flight
    /\ cleanup_future # <<>>
    /\ \E k \in DOMAIN actors : IdleExpired(k)

\* ------------------------------------------- properties of the Kademlia
\* The steps of the behaviour, told by the history variable.
DirectDiscover(x) ==
    /\ klast'.op = "discover_peer"
    /\ outlets'[Len(outlets')].peer = x

PolledDiscover(x) ==
    /\ klast'.op = "poll"
    /\ klast'.cmds = <<DiscoverPeerCmd(x)>>
    /\ klast'.events = <<>>

DiscoverCall(x) == DirectDiscover(x) \/ PolledDiscover(x)

KadPollStep == klast'.op = "poll"

NoLocal(x) == addresses_of_peer(KadState, x) = <<>>
Banned(x) == is_banned(KadState, x)
HasWaiter(x) == x \in DOMAIN pending_peers

\* The waiter a call made in this step queues.
NewWaiter == PendingPeer(Len(outlets'), instant)

RunningQuery(kind) == [kind |-> kind, running |-> TRUE]

PeerQueriesOf(x) == { id \in DOMAIN queries : queries[id] = PeerQuery(x) }

\* C15: a DiscoverPeer(x) call made while x has no local addresses and is
\* not banned queues its waiter behind the waiters of x; if x already has a
\* waiter the call issues no DHT query and registers nothing in queries (a
\* direct call changes nothing but the pending list of x), and if x has no
\* waiter the call issues one get_closest_peers(x) and registers exactly one
\* Peer(x) entry under the fresh query id.
C15_OneQueryPerDiscovery ==
    [][ \A x \in Wanted :
          (DiscoverCall(x) /\ NoLocal(x) /\ ~Banned(x)) =>
             /\ x \in DOMAIN pending_peers'
             /\ pending_peers'[x][Len(pending_peers'[x])] = NewWaiter
             /\ outlets'[Len(outlets')].sent = <<>>
             /\ IF HasWaiter(x)
                THEN /\ queries' = queries
                     /\ kademlia' = kademlia
                     /\ DirectDiscover(x) =>
                           /\ pending_peers' =
                                 [pending_peers EXCEPT ![x] = Append(@, NewWaiter)]
                           /\ failed_peers' = failed_peers
                ELSE /\ pending_peers'[x] = <<NewWaiter>>
                     /\ queries' = InsertKey(queries, NewQueryId(kademlia), PeerQuery(x))
                     /\ NewQueryId(kademlia) \notin DOMAIN queries
                     /\ kademlia'.issued =
                           Append(kademlia.issued, RunningQuery("GetClosestPeers"))
      ]_kad_vars

\* Two back-to-back calls for the same peer: two waiters, one query.
C15_Witness ==
    /\ klast.op = "discover_peer"
    /\ \E x \in Wanted :
          /\ x \in DOMAIN pending_peers
          /\ Len(pending_peers[x]) = 2
          /\ pending_peers[x][1].created = pending_peers[x][2].created
          /\ Cardinality(DOMAIN queries) = 1
          /\ Cardinality(PeerQueriesOf(x)) = 1

\* The waiters that are queued, and their reply channels.
Waiters ==
    UNION { { pending_peers[x][i] : i \in DOMAIN pending_peers[x] } :
            x \in DOMAIN pending_peers }

QueuedOutlets == { w.out : w \in Waiters }

WaiterOf(out) == CHOOSE w \in Waiters : w.out = out

\* The age at which a waiter times out.
WaiterTimeout == 2 * config.query_timeout

IsOk(reply) == reply.ok
PeerTimedOut == Err("PeerTimedOut")
PeerIsBanned == Err("PeerBanned")

\* C16: every waiter queued by DiscoverPeer receives exactly one reply,
\* Ok(addresses) or PeerTimedOut: a queued waiter has no reply yet and is
\* queued once, a reply channel never carries two replies, a waiter leaves
\* the queue only with its reply, and a poll leaves no waiter queued whose
\* age is 2 * query_timeout or more and has armed the timer for an instant
\* that is not later than the time-out of any of them; and, the behaviour
\* being polled again and again, every queued waiter is eventually answered
\* (for the waiters that time out before the clock of the model stops).
C16_WaitersAnswered ==
    /\ [](/\ \A out \in DOMAIN outlets : Len(outlets[out].sent) <= 1
          /\ \A out \in QueuedOutlets : outlets[out].sent = <<>>
          /\ \A x \in DOMAIN pending_peers :
                \A i, j \in DOMAIN pending_peers[x] :
                   pending_peers[x][i].out = pending_peers[x][j].out => i = j)
    /\ [][ /\ \A out \in QueuedOutlets :
                 \/ out \in QueuedOutlets' /\ WaiterOf(out)' = WaiterOf(out)
                 \/ /\ out \notin QueuedOutlets'
                    /\ \/ outlets'[out].sent = <<PeerTimedOut>>
                       \/ /\ Len(outlets'[out].sent) = 1
                          /\ IsOk(outlets'[out].sent[1])
                          /\ outlets'[out].sent[1].value # <<>>
           /\ KadPollStep =>
                 \A w \in Waiters' :
                    /\ instant < w.created + WaiterTimeout
                    /\ instant < timer'
                    /\ timer' <= w.created + WaiterTimeout
         ]_kad_vars
    /\ \A out \in 1 .. KadMaxCalls :
          (out \in QueuedOutlets
             /\ WaiterOf(out).created + WaiterTimeout <= KadMaxTime)
          ~> (/\ out \in DOMAIN outlets
              /\ out \notin QueuedOutlets
              /\ Len(outlets[out].sent) = 1)

\* A poll at the very instant the waiter reaches the age of
\* 2 * query_timeout has answered it PeerTimedOut; another waiter, queued
\* later, is still waiting.
C16_Witness ==
    /\ klast.op = "poll"
    /\ instant = WaiterTimeout
    /\ outlets # <<>>
    /\ outlets[1].sent = <<PeerTimedOut>>
    /\ Waiters # {}

\* The reply channel of the call made in this step.
NewOutlet == Len(outlets')

Threshold == config.peer_fail_threshold

CountOf(failed, x) == IF x \in DOMAIN failed THEN failed[x].count ELSE 0

\* C17: a failure record whose count has reached peer_fail_threshold is
\* banned, the poll whose sweep brings the count to the threshold leaving it
\* banned as of that instant; and a DiscoverPeer(p) call made while p is
\* banned and has no local addresses is answered PeerBanned, queues no
\* waiter and issues no DHT query.
C17_BanAtThreshold ==
    /\ [](\A x \in DOMAIN failed_peers :
             failed_peers[x].count >= Threshold => IsSome(failed_peers[x].ban))
    /\ [][ /\ \A x \in Wanted :
                 (/\ KadPollStep
                  /\ CountOf(failed_peers, x) < Threshold
                  /\ CountOf(failed_peers', x) >= Threshold)
                 => failed_peers'[x].ban = Some(instant)
           /\ \A x \in Wanted :
                 (DiscoverCall(x) /\ NoLocal(x) /\ Banned(x)) =>
                    /\ outlets'[NewOutlet].sent = <<PeerIsBanned>>
                    /\ NewOutlet \notin QueuedOutlets'
                    /\ queries' = queries
                    /\ kademlia' = kademlia
                    /\ DirectDiscover(x) =>
                          /\ pending_peers' = pending_peers
                          /\ failed_peers' = failed_peers
         ]_kad_vars

\* With a threshold of 1, one timed-out discovery: the peer is banned and
\* the next call has been answered PeerBanned.
C17_Witness ==
    /\ klast.op = "discover_peer"
    /\ Threshold = 1
    /\ Len(outlets) = 2
    /\ outlets[1].sent = <<PeerTimedOut>>
    /\ outlets[2].sent = <<PeerIsBanned>>
    /\ \E x \in Wanted : x \in DOMAIN failed_peers /\ failed_peers[x].count = 1

Cooldown == config.ban_cooldown

\* C18 (as claimed): a banned peer is unbanned once ban_cooldown has elapsed
\* since it was banned: a poll made banned_since[p] + ban_cooldown or later
\* leaves no failure record of p, whatever polls ran in between.
C18_UnbanAfterCooldown ==
    [][ \A x \in DOMAIN banned_since :
          (KadPollStep /\ instant >= banned_since[x] + Cooldown)
             => x \notin DOMAIN failed_peers'
      ]_kad_vars

\* What the sweep does instead: every poll that keeps a banned record sets
\* its ban to the instant of the poll, and removes the record only when
\* ban_cooldown has passed since the poll before.
C18_BanRenewedBySweep ==
    [][ \A x \in DOMAIN failed_peers :
          (KadPollStep /\ IsSome(failed_peers[x].ban)) =>
             \/ x \notin DOMAIN failed_peers'
             \/ /\ failed_peers'[x].ban = Some(instant)
                /\ instant < Unwrap(failed_peers[x].ban) + Cooldown
      ]_kad_vars

\* A peer banned for ban_cooldown or longer is still banned after a poll,
\* and a call for it has been answered PeerBanned.
C18_Witness ==
    /\ klast.op = "discover_peer"
    /\ \E x \in DOMAIN banned_since :
          /\ instant >= banned_since[x] + Cooldown
          /\ x \in DOMAIN failed_peers
          /\ Unwrap(failed_peers[x].ban) > banned_since[x]
    /\ outlets[Len(outlets)].sent = <<PeerIsBanned>>

\* The discovery notifications: the events handed to peer_discovered.
Notifications == {"RoutingUpdated", "RoutablePeer", "PendingRoutablePeer"}

\* The poll of this step injected a discovery notification about x.
Notified(x) ==
    /\ klast'.op = "poll"
    /\ \E i \in DOMAIN klast'.events :
          klast'.events[i].type \in Notifications /\ klast'.events[i].peer = x

\* C19: a poll that injects a RoutingUpdated, RoutablePeer or
\* PendingRoutablePeer event about p leaves no failure record and no waiter
\* of p, whether p had waiters or not; a failure record of p comes into
\* being only in a poll that found waiters of p; and a DiscoverPeer(p) call
\* that finds no failure record of p is not answered PeerBanned.
C19_DiscoveryUnbans ==
    [][ /\ \A x \in KadPeers :
              Notified(x) =>
                 x \notin DOMAIN failed_peers' /\ x \notin DOMAIN pending_peers'
        /\ \A x \in KadPeers :
              (x \notin DOMAIN failed_peers /\ x \in DOMAIN failed_peers') =>
                 KadPollStep /\ x \in DOMAIN pending_peers
        /\ \A x \in Wanted :
              (DiscoverCall(x) /\ x \notin DOMAIN failed_peers) =>
                 outlets'[NewOutlet].sent # <<PeerIsBanned>>
      ]_kad_vars

\* A waiter of p1 timed out at this instant, which left a failure record,
\* and a poll has injected a notification about p1: no waiter is queued and
\* the record is gone.
C19_Witness ==
    /\ klast.op = "poll"
    /\ klast.events # <<>>
    /\ klast.events[1].type \in Notifications
    /\ klast.events[1].peer = "p1"
    /\ instant = WaiterTimeout
    /\ outlets # <<>>
    /\ outlets[1].sent = <<PeerTimedOut>>
    /\ pending_peers = EmptyTable
    /\ failed_peers = EmptyTable

\* The bootstrap queries that are registered.
UnitQueries == { id \in DOMAIN queries : queries[id].kind = "Unit" }

\* The poll of this step injected a bootstrap result for query `id` that
\* reports no bucket left.
BootstrapDone(id) ==
    /\ klast'.op = "poll"
    /\ \E i \in DOMAIN klast'.events :
          /\ klast'.events[i].type = "Bootstrap"
          /\ klast'.events[i].id = id
          /\ klast'.events[i].num_remaining = Some(0)

\* C20: the reply channel of a registered bootstrap has no reply yet, and
\* its query id is that of a bootstrap of the libp2p behaviour (which
\* reports it with bootstrap results only); a
\* poll that injects a bootstrap result for its query id with num_remaining
\* = Some(0) sends Ok(()) into it and removes the query; every other step,
\* whatever events it injects (bootstrap results with Some(n > 0) or None,
\* closest-peers results, routing notifications), sends nothing into it and
\* leaves the query registered; and a bootstrap channel never carries
\* anything but one Ok(()) or one NoKnownPeers.
C20_BootstrapReply ==
    /\ [](/\ \A id \in UnitQueries :
                /\ outlets[queries[id].out].sent = <<>>
                /\ kademlia.issued[id].kind = "Bootstrap"
          /\ \A out \in DOMAIN outlets :
                outlets[out].call = "Bootstrap" =>
                   outlets[out].sent \in { <<>>, <<Ok(Unit)>>, <<Err("NoKnownPeers")>> })
    /\ [][ \A id \in UnitQueries :
             IF BootstrapDone(id)
             THEN /\ outlets'[queries[id].out].sent = <<Ok(Unit)>>
                  /\ id \notin DOMAIN queries'
             ELSE /\ outlets'[queries[id].out].sent = <<>>
                  /\ id \in DOMAIN queries'
                  /\ queries'[id] = queries[id]
         ]_kad_vars

\* A bootstrap has been answered Ok(()) by a poll that injected its result
\* with num_remaining = Some(0).
C20_Witness ==
    /\ klast.op = "poll"
    /\ klast.events # <<>>
    /\ klast.events[1].type = "Bootstrap"
    /\ klast.events[1].num_remaining = Some(0)
    /\ outlets # <<>>
    /\ outlets[1].call = "Bootstrap"
    /\ outlets[1].sent = <<Ok(Unit)>>
    /\ UnitQueries = {}

\* The ingested particle is badly signed and addressed to a worker that is
\* not active, by a peer that has no privilege on this node.
BadlySignedToInactive ==
    /\ ~IngestedParticle.valid
    /\ IngestedScope \in Workers
    /\ IngestedScope \notin last'.workers.active
    /\ ~Privileged

\* C21: ingest checks the deadline, then the signature, then the activation
\* of the worker, and stops at the first check that fails: a call appends at
\* most one event and keeps those that were queued; a particle that is both
\* expired and badly signed yields ParticleExpired alone, a badly signed one
\* addressed to an inactive worker yields SignatureVerificationFailed alone,
\* and a call that appends an event touches no actor.
C21_FirstFailureOnly ==
    [][ IngestStep =>
          /\ \/ events' = events
             \/ /\ Len(events') = Len(events) + 1
                /\ SubSeq(events', 1, Len(events)) = events
                /\ actors' = actors
          /\ (DeadlinePassed(IngestedParticle, now) /\ ~IngestedParticle.valid) =>
                events' = Append(events, ParticleExpired(IngestedParticle.id))
          /\ (~DeadlinePassed(IngestedParticle, now) /\ BadlySignedToInactive) =>
                events' = Append(events,
                                 SignatureVerificationFailed(IngestedParticle.id))
          /\ (DeadlinePassed(IngestedParticle, now) /\ BadlySignedToInactive) =>
                events' = Append(events, ParticleExpired(IngestedParticle.id))
      ]_vars

\* A particle that was expired and badly signed was ingested to a worker
\* that is not active: the one event is ParticleExpired.
C21_Witness ==
    /\ last.op = "ingest"
    /\ ~last.ingested[1].particle.valid
    /\ DeadlinePassed(last.ingested[1].particle, now)
    /\ last.ingested[1].peer_scope \in Workers
    /\ last.ingested[1].peer_scope \notin last.workers.active
    /\ events = <<ParticleExpired(last.ingested[1].particle.id)>>

\* The keys the cleanup step of the poll just taken removed from the table.
Evicted == SeqToSet(last'.evicted)

\* The actor for key k is in the table with its deadline ahead, no execution
\* and nothing in its mailbox.
IdleBeforeDeadline(k) ==
    /\ k \in DOMAIN actors
    /\ ~ActorIsExpired(actors[k], now)
    /\ actors[k].future = NoneOpt
    /\ actors[k].mailbox = <<>>

\* C22: an actor leaves the table only in the cleanup step of a poll, and
\* only if it is expired at that poll's now and holds no running execution;
\* an actor whose execution is running stays, with that execution, whatever
\* its deadline, and an actor that is not expired stays, also when it is
\* idle with an empty mailbox.
C22_EvictOnlyExpiredIdle ==
    [][ /\ DOMAIN actors \ DOMAIN actors' \subseteq Evicted
        /\ last'.op # "poll" => Evicted = {}
        /\ \A k \in Evicted :
              /\ k \in DOMAIN actors
              /\ k \notin DOMAIN actors'
              /\ ActorIsExpired(actors[k], now)
              /\ ~Running(actors, k)
        /\ \A k \in DOMAIN actors :
              Running(actors, k) =>
                 /\ k \notin Evicted
                 /\ k \in DOMAIN actors'
                 /\ last'.op = "poll" => actors'[k].future = actors[k].future
        /\ \A k \in DOMAIN actors :
              ~ActorIsExpired(actors[k], now) =>
                 k \notin Evicted /\ k \in DOMAIN actors'
        /\ \A k \in DOMAIN actors :
              (last'.op = "poll" /\ IdleBeforeDeadline(k)) =>
                 k \in DOMAIN actors' /\ actors'[k].future = NoneOpt
      ]_vars

\* A poll after the deadline of two actors evicted the idle one and kept the
\* one whose execution is running.
C22_Witness ==
    /\ last.op = "poll"
    /\ last.evicted # <<>>
    /\ \E k \in DOMAIN actors :
          /\ Running(actors, k)
          /\ ActorIsExpired(actors[k], now)

\* The actors the cleanup step of a poll finds expired and not executing:
\* those that held no execution, or one that had finished, before the poll.
Expendable == { k \in DOMAIN actors :
                  ActorIsExpired(actors[k], now) /\ ~Running(actors, k) }

\* The actor for key k is after the step what it was before, apart from the
\* finished execution the poll collected and the one the dispatch step may
\* have started from the head of its mailbox.
KeptByCleanup(k) ==
    /\ k \in DOMAIN actors'
    /\ actors'[k].deadline = actors[k].deadline
    /\ \/ actors'[k].mailbox = actors[k].mailbox /\ actors'[k].future = NoneOpt
       \/ /\ actors[k].mailbox # <<>>
          /\ actors'[k].mailbox = Tail(actors[k].mailbox)
          /\ IsSome(actors'[k].future)
          /\ Unwrap(actors'[k].future).particle = Head(actors[k].mailbox)
          /\ Unwrap(actors'[k].future).status = "running"

\* C23: a poll removes at most MAX_CLEANUP_KEYS_SIZE actors and hands their
\* keys, each once, to one batch_cleanup_data call, which it makes only when
\* it removed an actor; an expired actor that is not executing and is not
\* among them stays in the table as it was; and a poll that finds no cleanup
\* in flight leaves such an actor behind only when it removed
\* MAX_CLEANUP_KEYS_SIZE others, so that later polls remove the rest.
C23_CleanupCap ==
    [][ PollPassStep =>
          /\ Len(last'.evicted) <= MAX_CLEANUP_KEYS_SIZE
          /\ Cardinality(Evicted) = Len(last'.evicted)
          /\ Evicted = DOMAIN actors \ DOMAIN actors'
          /\ Evicted \subseteq Expendable
          /\ Evicted # {} =>
                ~last'.in_flight /\ cleanup_future' = Some("batch_cleanup_data")
          /\ (Evicted = {} /\ ~last'.in_flight) => cleanup_future' = NoneOpt
          /\ \A k \in Expendable \ Evicted :
                /\ KeptByCleanup(k)
                /\ ~last'.in_flight => Len(last'.evicted) = MAX_CLEANUP_KEYS_SIZE
      ]_vars

\* A poll removed as many actors as one batch takes and launched the batch,
\* and another actor that is expired and not executing is still in the table.
C23_Witness ==
    /\ last.op = "poll"
    /\ Len(last.evicted) = MAX_CLEANUP_KEYS_SIZE
    /\ cleanup_future = Some("batch_cleanup_data")
    /\ \E k \in DOMAIN actors :
          ActorIsExpired(actors[k], now) /\ actors[k].future = NoneOpt

\* The events the step produced, in the order of the queue: the one poll
\* returned and those it left buffered.
QueueProduced == last'.result \o events'

\* The remote routing effects among them, in that order.
RemoteProduced ==
    SelectSeq(QueueProduced, LAMBDA e : e.type = "RemoteRoutingEffects")

\* The (particle, scope) pairs of the ingest calls the step made, in order.
HopsReplayed ==
    [i \in 1 .. Len(last'.ingested) |->
        [particle |-> last'.ingested[i].particle,
         peer_scope |-> last'.ingested[i].peer_scope]]

\* The next peers of the finished execution of actor k that resolve to a
\* local scope, in their original order, each with the scope it resolves to.
LocalPeersOf(k) ==
    SelectSeq(actors[k].future[1].next_peers, LAMBDA np : LocalScopesOf(np) # {})

LocalHopsOf(k) ==
    [i \in 1 .. Len(LocalPeersOf(k)) |->
        [particle |-> actors[k].future[1].particle,
         peer_scope |-> IF LocalPeersOf(k)[i] = HostPeer THEN Host
                        ELSE LocalPeersOf(k)[i]]]

\* What a poll that observes the finished executions in the order `ord`
\* owes: one remote effect for each of them that names a remote peer, and
\* the hops of one local effect for each of them that names a local one.
RemoteDue(ord) ==
    LET with == SelectSeq(ord, LAMBDA k : RemotePeersOf(k) # <<>>)
    IN  [i \in 1 .. Len(with) |->
            RemoteRoutingEffects(actors[with[i]].future[1].particle,
                                 RemotePeersOf(with[i]))]

LocalDue(ord) == Flatten([i \in 1 .. Len(ord) |-> LocalHopsOf(ord[i])])

\* C24: the poll that collects finished executions splits the next peers of
\* each of them in two: the peers with no local scope go, in their original
\* order, into one RemoteRoutingEffects with the particle of the execution,
\* and the peers with a local scope into one LocalRoutingEffects, which the
\* poll replays hop by hop; no peer is in both or in neither, and no effect
\* with an empty peer list is buffered or replayed.
C24_NextPeersPartitioned ==
    [][ PollPassStep =>
          /\ \E ord \in Orders(FinishedKeys) :
                /\ RemoteProduced = RemoteDue(ord)
                /\ HopsReplayed = LocalDue(ord)
          /\ \A i \in 1 .. Len(RemoteProduced) :
                RemoteProduced[i].next_peers # <<>>
          /\ \A k \in FinishedKeys :
                /\ Len(RemotePeersOf(k)) + Len(LocalPeersOf(k))
                      = Len(actors[k].future[1].next_peers)
                /\ (FinishedKeys = {k} /\ RemotePeersOf(k) = <<>>) =>
                      RemoteProduced = <<>>
                /\ (FinishedKeys = {k} /\ LocalPeersOf(k) = <<>>) =>
                      HopsReplayed = <<>>
      ]_vars

\* An execution finished with a local and a remote next peer: the poll
\* replayed the particle to the local scope and returned the remote effect
\* that names the remote peer alone.
C24_Witness ==
    /\ last.op = "poll"
    /\ Len(last.ingested) = 1
    /\ last.ingested[1].peer_scope = "w1"
    /\ last.result # NoneOpt
    /\ \E e \in SeqToSet(last.result) \cup SeqToSet(events) :
          e.type = "RemoteRoutingEffects" /\ e.next_peers = <<RemotePeer>>

\* The VMs that are neither idle in the pool nor being rebuilt: those the
\* executing actors have borrowed.
BorrowedVms(pool) ==
    { id \in VmIds : ~pool.runtimes[id] /\ id \notin pool.creating }

\* C25: a poll that finds an event buffered returns the head of the queue
\* and leaves the rest of the queue; apart from that it only drives the VM
\* pool, where VMs that were being built may become idle: it collects no
\* execution, removes no actor, offers no VM, replays no hop and launches no
\* cleanup, so the actors, their mailboxes and executions, the borrowed VMs
\* and the cleanup in flight are as before.
C25_BufferedPollIsAFrame ==
    [][ PollBufferedStep =>
          /\ last'.result = Some(Head(events))
          /\ events' = Tail(events)
          /\ actors' = actors
          /\ cleanup_future' = cleanup_future
          /\ now' = now
          /\ last'.ingested = <<>>
          /\ last'.evicted = <<>>
          /\ last'.offered = {}
          /\ last'.recreated = {}
          /\ BorrowedVms(vm_pool') = BorrowedVms(vm_pool)
          /\ IdleVms(vm_pool) \subseteq IdleVms(vm_pool')
          /\ vm_pool'.creating \subseteq vm_pool.creating
          /\ IdleVms(vm_pool') \ IdleVms(vm_pool)
                = vm_pool.creating \ vm_pool'.creating
      ]_vars

\* A poll returned a buffered event while an execution had finished, an
\* actor had a particle waiting and a VM was idle: the execution is still to
\* be collected and the particle still waits.
C25_Witness ==
    /\ last.op = "poll"
    /\ last.result # NoneOpt
    /\ last.offered = {}
    /\ IdleVms(vm_pool) # {}
    /\ \E k \in DOMAIN actors : PollCompletedReady(actors[k])
    /\ \E k \in DOMAIN actors : PollNextConsumes(actors[k])

\* The error events the ingest calls of the step pushed, in their order.
ErrorOf(call) ==
    CASE call.outcome = "ParticleExpired" -> <<ParticleExpired(call.particle.id)>>
      [] call.outcome = "SignatureVerificationFailed" ->
            <<SignatureVerificationFailed(call.particle.id)>>
      [] OTHER -> <<>>

ErrorsPushed == Flatten([i \in 1 .. Len(last'.ingested) |-> ErrorOf(last'.ingested[i])])

\* C26: the event queue is first in, first out.  An ingest call adds its
\* event, if it has one, at the tail; a poll that finds events buffered
\* returns the head and leaves the rest in order; a poll that finds none
\* queues the errors of its replayed hops in the order of the calls and
\* behind them the remote effects in the order in which it met the finished
\* executions, returns the head of what it queued and leaves the rest; it
\* returns Pending only when it queued nothing; no other step touches the
\* queue, so no event is lost, repeated or overtaken.
C26_EventQueueFifo ==
    [][ /\ IngestStep => events' = events \o ErrorsPushed
        /\ PollBufferedStep =>
              /\ last'.result = Some(Head(events))
              /\ QueueProduced = events
        /\ PollPassStep =>
              /\ QueueProduced = ErrorsPushed \o RemoteDue(last'.completed)
              /\ SeqToSet(last'.completed) = FinishedKeys
              /\ Len(last'.completed) = Cardinality(FinishedKeys)
              /\ last'.result = NoneOpt <=> QueueProduced = <<>>
        /\ last'.op = "poll" =>
              /\ Len(last'.result) <= 1
              /\ last'.result = NoneOpt => events = <<>> /\ events' = <<>>
        /\ last'.op \notin {"ingest", "poll"} => events' = events
      ]_vars

\* A poll met two finished executions, each with a remote next peer: it
\* returned the effect of the first and left the effect of the second at the
\* head of the queue.
C26_Witness ==
    /\ last.op = "poll"
    /\ Len(last.completed) = 2
    /\ last.completed[1].signature # last.completed[2].signature
    /\ last.result # NoneOpt
    /\ Unwrap(last.result).type = "RemoteRoutingEffects"
    /\ Unwrap(last.result).particle_id = last.completed[1].signature
    /\ events # <<>>
    /\ Head(events).type = "RemoteRoutingEffects"
    /\ Head(events).particle_id = last.completed[2].signature

\* The actors the dispatch step of the poll just taken offered a VM to, and
\* the actors it walked over: those the cleanup step left in the table.
OfferedKeys == { o.key : o \in last'.offered }
DispatchedOver == DOMAIN actors \ Evicted

\* How many of the hops the step replayed were admitted to the actor for k;
\* the replay comes after the dispatch step.
AdmittedNow(k) ==
    Cardinality({ i \in 1 .. Len(last'.ingested) :
                    /\ last'.ingested[i].outcome = "Admitted"
                    /\ ActorKey(last'.ingested[i].particle.signature,
                                last'.ingested[i].peer_scope) = k })

\* C27: the dispatch step of a poll ends only when it has offered a VM to
\* every actor or the pool has no idle VM left, and an actor that was offered
\* one while it held no execution and had a particle waiting took it; so
\* when the step ends with an idle VM in the pool, no actor is left without
\* an execution and with a particle in its mailbox: the particles found in
\* the mailbox of such an actor after the poll are those the replay of the
\* local hops, which follows the dispatch, put there.
C27_NoIdleActorWithFreeVm ==
    [][ PollPassStep =>
          /\ OfferedKeys \subseteq DispatchedOver
          /\ OfferedKeys = DispatchedOver \/ IdleVms(vm_pool') = {}
          /\ \A o \in last'.offered :
                /\ o.consumed <=> (~Running(actors, o.key)
                                     /\ actors[o.key].mailbox # <<>>)
                /\ o.consumed => /\ Running(actors', o.key)
                                 /\ actors'[o.key].future[1].vm_id = o.vm_id
          /\ IdleVms(vm_pool') # {} =>
                \A k \in DOMAIN actors' :
                    actors'[k].future = NoneOpt =>
                       Len(actors'[k].mailbox) = AdmittedNow(k)
      ]_vars

\* A poll offered a VM to both actors of the table: the one with a particle
\* waiting took it, the other handed it back, and with a VM idle in the pool
\* no actor without an execution has a particle waiting.
C27_Witness ==
    /\ last.op = "poll"
    /\ \E o \in last.offered : o.consumed
    /\ \E o \in last.offered : ~o.consumed
    /\ IdleVms(vm_pool) # {}
    /\ \A k \in DOMAIN actors :
          actors[k].future = NoneOpt => actors[k].mailbox = <<>>
    /\ Cardinality(DOMAIN actors) = 2

\* The actor for key k has a particle waiting in its mailbox; it is in the
\* table; it is there with its deadline behind it and no execution.
Waiting(k) == k \in DOMAIN actors /\ actors[k].mailbox # <<>>
InTable(k) == k \in DOMAIN actors
ExpiredIdle(k) ==
    /\ k \in DOMAIN actors
    /\ ActorIsExpired(actors[k], now)
    /\ ~ActorIsExecuting(actors[k])

\* A particle leaves a mailbox only from its head, to begin execution in a
\* pass of poll, or with its whole actor when a pass evicts it at or after
\* the deadline.
LeavesByStartOrEviction ==
    \A k \in DOMAIN actors :
        \/ k \notin DOMAIN actors' /\ PollPassStep /\ KeyDeadlinePassed(k, now)
        \/ /\ k \in DOMAIN actors'
           /\ \/ \E n \in 0 .. Len(actors'[k].mailbox) :
                    SubSeq(actors'[k].mailbox, 1, Len(actors'[k].mailbox) - n)
                       = actors[k].mailbox
              \/ /\ PollPassStep
                 /\ actors[k].mailbox # <<>>
                 /\ Running(actors', k)
                 /\ actors'[k].future[1].particle = Head(actors[k].mailbox)
                 /\ \E n \in 0 .. Len(actors'[k].mailbox) :
                       SubSeq(actors'[k].mailbox, 1, Len(actors'[k].mailbox) - n)
                          = Tail(actors[k].mailbox)

\* Every mailbox is in the end empty or gone with its actor, and every actor
\* that is expired and not executing is in the end out of the table.
NothingStuck ==
    /\ \A k \in FairKeys : Waiting(k) ~> ~Waiting(k)
    /\ \A k \in FairKeys : ExpiredIdle(k) ~> ~InTable(k)

PassesRecur == <>[]~PassChanges \/ []<><<PassTaken>>_vars

NotifiedAddresses == klast'.events[1].addresses

\* The poll of this step found no command and one event, a discovery
\* notification about x.
NotifiedAlone(x) ==
    /\ klast'.op = "poll"
    /\ klast'.cmds = <<>>
    /\ Len(klast'.events) = 1
    /\ klast'.events[1].type \in Notifications
    /\ klast'.events[1].peer = x

\* The waiter w times out in a sweep at this instant.
TimesOutNow(w) == instant - w.created >= WaiterTimeout

\* C29: a poll that injects a discovery notification about p with the
\* addresses A leaves no pending entry of p, and every waiter that was
\* queued for p has its reply: Ok(A), the same for all of them, unless the
\* sweep of the same poll, which runs first, found the waiter timed out; a
\* reply channel that carries a reply is not queued and is never sent a
\* second reply, so no waiter answered Ok(A) is answered PeerTimedOut later.
C29_NotificationAnswersAllWaiters ==
    [][ /\ \A x \in Wanted :
              NotifiedAlone(x) =>
                 /\ x \notin DOMAIN pending_peers'
                 /\ \A w \in Waiters :
                       outlets[w.out].peer = x =>
                          outlets'[w.out].sent =
                             IF TimesOutNow(w) THEN <<PeerTimedOut>>
                             ELSE <<Ok(NotifiedAddresses)>>
                 /\ \A out \in DOMAIN outlets :
                       out \notin QueuedOutlets =>
                          outlets'[out].sent = outlets[out].sent
        /\ \A out \in DOMAIN outlets :
              outlets[out].sent # <<>> =>
                 /\ out \notin QueuedOutlets
                 /\ outlets'[out].sent = outlets[out].sent
      ]_kad_vars

\* Two DiscoverPeer(p1) calls were queued behind one query, and a poll
\* injected a notification about p1: both channels carry the same Ok reply
\* and nothing is pending.
C29_Witness ==
    /\ klast.op = "poll"
    /\ \E i \in DOMAIN klast.events : klast.events[i].type \in Notifications
    /\ Len(outlets) = 2
    /\ \A out \in DOMAIN outlets :
          outlets[out].call = "DiscoverPeer" /\ outlets[out].peer = "p1"
    /\ outlets[1].sent = <<Ok(klast.events[1].addresses)>>
    /\ outlets[2].sent = outlets[1].sent
    /\ pending_peers = EmptyTable
    /\ Len(kademlia.issued) = 1

\* The poll of this step found no command and no event: it is a sweep.
SweepAlone ==
    /\ klast'.op = "poll"
    /\ klast'.cmds = <<>>
    /\ klast'.events = <<>>

\* The waiters of x that a sweep at this instant leaves queued.
Younger(x) == SelectSeq(pending_peers[x], LAMBDA w : ~TimesOutNow(w))

\* C30: a sweep replies PeerTimedOut to the waiters whose age is
\* 2 * query_timeout or more, and to no other channel, and removes them from
\* the queue; the younger waiters of the same peer stay queued in their
\* order with no reply; the pending entry of a peer goes exactly when no
\* waiter of the peer is left, and no entry comes into being.
C30_SweepTimesOutOldWaiters ==
    [][ SweepAlone =>
          /\ \A w \in Waiters :
                outlets'[w.out].sent =
                   IF instant - w.created >= 2 * config.query_timeout
                   THEN <<PeerTimedOut>> ELSE <<>>
          /\ \A out \in DOMAIN outlets :
                out \notin QueuedOutlets => outlets'[out].sent = outlets[out].sent
          /\ DOMAIN pending_peers' =
                { x \in DOMAIN pending_peers : Younger(x) # <<>> }
          /\ \A x \in DOMAIN pending_peers' : pending_peers'[x] = Younger(x)
      ]_kad_vars

\* Two waiters of p1 were queued at instants 0 and 1 with a time-out of 2:
\* the sweep at instant 2 answered the first, whose age was exactly the
\* time-out, and left the second queued.
C30_Witness ==
    /\ klast.op = "poll"
    /\ klast.cmds = <<>>
    /\ klast.events = <<>>
    /\ instant = 2
    /\ WaiterTimeout = 2
    /\ Len(outlets) = 2
    /\ outlets[1].sent = <<PeerTimedOut>>
    /\ outlets[2].sent = <<>>
    /\ "p1" \in DOMAIN pending_peers
    /\ pending_peers["p1"] = <<PendingPeer(2, 1)>>

\* The channel carries one reply, Ok(addresses).
SentOk(sent, addresses) ==
    /\ Len(sent) = 1
    /\ IsOk(sent[1])
    /\ sent[1].value = addresses

\* The channel carries one reply, the error.
SentErr(sent, error) ==
    /\ Len(sent) = 1
    /\ ~IsOk(sent[1])
    /\ sent[1].value = error

\* Some waiter of x times out in a sweep at this instant.
TimedOutIn(x) ==
    /\ x \in DOMAIN pending_peers
    /\ \E i \in DOMAIN pending_peers[x] : TimesOutNow(pending_peers[x][i])

\* The ban of x has lasted ban_cooldown at this instant.
CooledDown(x) ==
    /\ x \in DOMAIN failed_peers
    /\ IsSome(failed_peers[x].ban)
    /\ instant - Unwrap(failed_peers[x].ban) >= Cooldown

\* C31 (as claimed): a sweep in which at least one waiter of p times out
\* leaves failed_peers[p].count one higher than before, however many waiters
\* of p timed out (1 for a peer that had no failure record); a sweep with no
\* timed-out waiter of p leaves the count of the record it keeps as it was.
C31_Original ==
    [][ \A x \in Wanted :
          SweepAlone =>
             IF TimedOutIn(x)
             THEN /\ x \in DOMAIN failed_peers'
                  /\ failed_peers'[x].count = CountOf(failed_peers, x) + 1
             ELSE x \in DOMAIN failed_peers' =>
                     failed_peers'[x].count = CountOf(failed_peers, x)
      ]_kad_vars

\* C31: the same, except that a sweep which finds the ban of p cooled down
\* removes the failure record of p, also when a waiter of p timed out in
\* that very sweep; a record is neither made nor removed in any other case.
C31_SweepCountsOncePerPeer ==
    [][ \A x \in Wanted :
          SweepAlone =>
             IF CooledDown(x) THEN x \notin DOMAIN failed_peers'
             ELSE IF TimedOutIn(x)
             THEN /\ x \in DOMAIN failed_peers'
                  /\ failed_peers'[x].count = CountOf(failed_peers, x) + 1
                  /\ x \notin DOMAIN failed_peers => failed_peers'[x].count = 1
             ELSE /\ x \in DOMAIN failed_peers' <=> x \in DOMAIN failed_peers
                  /\ CountOf(failed_peers', x) = CountOf(failed_peers, x)
      ]_kad_vars

\* Two waiters of p1 queued at instant 0 timed out in one sweep: both carry
\* PeerTimedOut and the count is 1.
C31_Witness ==
    /\ klast.op = "poll"
    /\ klast.cmds = <<>>
    /\ klast.events = <<>>
    /\ Len(outlets) = 2
    /\ SentErr(outlets[1].sent, "PeerTimedOut")
    /\ SentErr(outlets[2].sent, "PeerTimedOut")
    /\ pending_peers = EmptyTable
    /\ "p1" \in DOMAIN failed_peers
    /\ failed_peers["p1"].count = 1
    /\ instant = WaiterTimeout

\* The addresses the local lookup of x returns before this step.
LocalAddresses(x) == addresses_of_peer(KadState, x)

\* C32: a DiscoverPeer(p) call made while the local lookup of p is not
\* empty is answered Ok(addresses) at once, banned or not: its channel
\* carries that one reply and is not queued, no DHT query is issued and
\* queries is unchanged; a direct call changes neither pending_peers nor
\* failed_peers (in a poll the sweep that follows the command may).
C32_LocalLookupFirst ==
    [][ \A x \in Wanted :
          (DiscoverCall(x) /\ ~NoLocal(x)) =>
             /\ SentOk(outlets'[NewOutlet].sent, LocalAddresses(x))
             /\ NewOutlet \notin QueuedOutlets'
             /\ queries' = queries
             /\ kademlia' = kademlia
             /\ DirectDiscover(x) =>
                   /\ pending_peers' = pending_peers
                   /\ failed_peers' = failed_peers
      ]_kad_vars

\* p1 was banned after a timed-out discovery and then became a contact: the
\* call made for it has been answered with its address, and it is still
\* banned.
C32_Witness ==
    /\ klast.op = "discover_peer"
    /\ Len(outlets) = 2
    /\ SentErr(outlets[1].sent, "PeerTimedOut")
    /\ outlets[2].peer = "p1"
    /\ SentOk(outlets[2].sent, <<ContactAddress>>)
    /\ "p1" \in DOMAIN failed_peers
    /\ IsSome(failed_peers["p1"].ban)

\* The poll of this step found no command and one event, the result of the
\* closest-peers query that is registered as Peer(x).
PeerQueryFinished(x) ==
    /\ klast'.op = "poll"
    /\ klast'.cmds = <<>>
    /\ Len(klast'.events) = 1
    /\ klast'.events[1].type = "GetClosestPeers"
    /\ klast'.events[1].id \in DOMAIN queries
    /\ queries[klast'.events[1].id] = PeerQuery(x)

\* The behaviour as the sweep of this poll leaves it, before the event.
Swept == sweep(KadState, config, instant)

\* The waiters of x, in the state before the step.
WaitersOf(x) ==
    IF x \in DOMAIN pending_peers
    THEN { pending_peers[x][i] : i \in DOMAIN pending_peers[x] }
    ELSE {}

\* C33: a poll that injects the result of the query registered as Peer(p)
\* removes that entry from queries.  If the local lookup of p is not empty,
\* no pending entry of p is left and every waiter of p has Ok(addresses)
\* (PeerTimedOut if the sweep of the same poll, which runs first, timed it
\* out).  If it is empty, the waiters, the failure records and the reply
\* channels are as the sweep left them: the waiters still young stay queued
\* in order without a reply.  A waiter that is queued while no query is
\* registered for its peer is answered all the same (by a notification or
\* by the sweep), for the time-outs that fall before the clock stops.
C33_PeerQueryFinished ==
    /\ [][ \A x \in Wanted :
             PeerQueryFinished(x) =>
                /\ queries' = RemoveKey(queries, klast'.events[1].id)
                /\ IF ~NoLocal(x)
                   THEN /\ x \notin DOMAIN pending_peers'
                        /\ \A w \in WaitersOf(x) :
                              IF TimesOutNow(w)
                              THEN SentErr(outlets'[w.out].sent, "PeerTimedOut")
                              ELSE SentOk(outlets'[w.out].sent, LocalAddresses(x))
                   ELSE /\ pending_peers' = Swept.pending_peers
                        /\ failed_peers' = Swept.failed_peers
                        /\ outlets' = Swept.outlets
                        /\ \A w \in WaitersOf(x) :
                              ~TimesOutNow(w) =>
                                 /\ w.out \in QueuedOutlets'
                                 /\ pending_peers'[x] = Younger(x)
                                 /\ outlets'[w.out].sent = <<>>
         ]_kad_vars
    /\ \A out \in 1 .. KadMaxCalls :
          (/\ out \in QueuedOutlets
           /\ PeerQueriesOf(outlets[out].peer) = {}
           /\ WaiterOf(out).created + WaiterTimeout <= KadMaxTime)
          ~> (/\ out \in DOMAIN outlets
              /\ out \notin QueuedOutlets
              /\ outlets[out].sent # <<>>)

\* The query made for p1 has finished while p1 had no address: nothing is
\* registered in queries, the waiter is still queued and has no reply.
C33_Witness ==
    /\ klast.op = "poll"
    /\ Len(klast.events) = 1
    /\ klast.events[1].type = "GetClosestPeers"
    /\ queries = EmptyTable
    /\ "p1" \in DOMAIN pending_peers
    /\ \A out \in QueuedOutlets : outlets[out].sent = <<>>
    /\ kademlia.routing["p1"] = <<>>
    /\ kademlia.issued # <<>>
    /\ ~kademlia.issued[1].running

\* The reply channels of the remote neighbourhood calls, and the ids under
\* which a channel is registered in queries.
NeighborhoodOutlets ==
    { out \in DOMAIN outlets : outlets[out].call = "RemoteNeighborhood" }

RegisteredFor(out) ==
    { id \in DOMAIN queries : queries[id] = NeighborhoodQuery(out) }

\* The poll of this step found no command and one event, the result of a
\* closest-peers query that is registered as Neighborhood(out).
NeighborhoodFinished(out) ==
    /\ klast'.op = "poll"
    /\ klast'.cmds = <<>>
    /\ Len(klast'.events) = 1
    /\ klast'.events[1].type = "GetClosestPeers"
    /\ klast'.events[1].id \in RegisteredFor(out)

\* C34: a poll that injects the result of the query registered as
\* Neighborhood(reply) removes that entry from queries and sends into the
\* channel Ok(peers) when the result carries peers, success or timeout
\* alike, NoPeersFound for a success without peers and QueryTimedOut for a
\* timeout without peers; a channel is registered under one id until its
\* reply is sent and carries exactly one reply from then on.
C34_NeighborhoodReply ==
    /\ [](\A out \in NeighborhoodOutlets :
             IF RegisteredFor(out) # {}
             THEN Cardinality(RegisteredFor(out)) = 1 /\ outlets[out].sent = <<>>
             ELSE Len(outlets[out].sent) = 1)
    /\ [][ \A out \in NeighborhoodOutlets :
             NeighborhoodFinished(out) =>
                LET result == klast'.events[1]
                    sent == outlets'[out].sent
                IN  /\ queries' = RemoveKey(queries, result.id)
                    /\ result.ok /\ result.peers # <<>> => SentOk(sent, result.peers)
                    /\ result.ok /\ result.peers = <<>> => SentErr(sent, "NoPeersFound")
                    /\ ~result.ok /\ result.peers # <<>> => SentOk(sent, result.peers)
                    /\ ~result.ok /\ result.peers = <<>> => SentErr(sent, "QueryTimedOut")
         ]_kad_vars

\* A remote neighbourhood query timed out after it had found a peer: the
\* caller has Ok with that peer and nothing is registered.
C34_Witness ==
    /\ klast.op = "poll"
    /\ Len(klast.events) = 1
    /\ klast.events[1].type = "GetClosestPeers"
    /\ ~klast.events[1].ok
    /\ klast.events[1].peers = <<"p2">>
    /\ Len(outlets) = 1
    /\ outlets[1].call = "RemoteNeighborhood"
    /\ SentOk(outlets[1].sent, <<"p2">>)
    /\ queries = EmptyTable

\* The call of this step is made for a key that has no actor, in the scope
\* of a worker the registry does not know (no key pair, deal id or runtime
\* handle), with a particle that passes the checks made before the actor is
\* looked up.
CannotCreateActor ==
    /\ IngestStep
    /\ ~DeadlinePassed(IngestedParticle, now)
    /\ IngestedParticle.valid
    /\ Privileged
    /\ IngestedScope \in Workers
    /\ IngestedScope \notin last'.workers.registered
    /\ IngestedKey \notin DOMAIN actors

NewPeerQueries(x) == PeerQueriesOf(x)' \ PeerQueriesOf(x)

\* C36 (as claimed): queries never holds two Peer(p) entries for one peer.
C36_OnePeerQueryPerPeer ==
    \A x \in Wanted : Cardinality(PeerQueriesOf(x)) <= 1

\* What discover_peer guards instead: a Peer(p) entry is added only by a
\* DiscoverPeer(p) call that finds no waiter of p queued, one entry per
\* step, and it leaves queries only when its query finishes; the entries of
\* a peer whose waiters have all been answered stay registered, and the
\* next call adds another.
C36_OneQueryPerEmptyList ==
    [][ \A x \in Wanted :
          /\ Cardinality(NewPeerQueries(x)) <= 1
          /\ NewPeerQueries(x) # {} =>
                /\ klast'.op \in {"discover_peer", "poll"}
                /\ ~HasWaiter(x)
                /\ \A id \in NewPeerQueries(x) :
                      /\ id > Len(kademlia.issued)
                      /\ kademlia'.issued[id] = RunningQuery("GetClosestPeers")
          /\ \A id \in PeerQueriesOf(x) \ PeerQueriesOf(x)' :
                /\ klast'.op = "poll"
                /\ \E i \in DOMAIN klast'.events :
                      /\ klast'.events[i].type = "GetClosestPeers"
                      /\ klast'.events[i].id = id
      ]_kad_vars

\* Two Peer(p1) entries are registered, and both queries are running.
C36_Witness ==
    /\ Cardinality(PeerQueriesOf("p1")) = 2
    /\ \A id \in PeerQueriesOf("p1") : kademlia.issued[id].running
    /\ Len(outlets) = 2

\* The actors whose next particle the dispatch step of this poll started.
StartedKeys == { o.key : o \in { x \in last'.offered : x.consumed } }

\* The cleanup step of this poll removed as many actors as one batch takes.
CapHit == Len(last'.evicted) = MAX_CLEANUP_KEYS_SIZE

\* C37 (as claimed): the dispatch step of a poll starts no particle of an
\* actor that is expired at the time of the poll.
C37_Original ==
    [][ PollPassStep =>
          \A k \in StartedKeys : ~ActorIsExpired(actors[k], now)
      ]_vars

\* C37: the dispatch step starts a particle of an expired actor only in a
\* poll whose cleanup step was skipped, a batch being in flight, or stopped
\* at the cap; in every other poll no expired actor is given a VM to run on,
\* and none that is not executing is left in the table by the cleanup.
C37_ExpiredStartedOnlyPastCleanup ==
    [][ PollPassStep =>
          /\ \A k \in StartedKeys :
                ActorIsExpired(actors[k], now) => (last'.in_flight \/ CapHit)
          /\ (~last'.in_flight /\ ~CapHit) =>
                \A k \in DOMAIN actors \cap DOMAIN actors' :
                   ActorIsExpired(actors[k], now) =>
                      /\ ActorIsExecuting(actors[k])
                      /\ ~PollCompletedReady(actors[k])
      ]_vars

\* A poll that found a cleanup batch in flight has started the particle of
\* an actor whose deadline had passed.
C37_Witness ==
    /\ last.op = "poll"
    /\ last.in_flight
    /\ last.evicted = <<>>
    /\ \E o \in last.offered :
          /\ o.consumed
          /\ o.key \in DOMAIN actors
          /\ ActorIsExpired(actors[o.key], now)
          /\ ActorIsExecuting(actors[o.key])

\* The actors the step removed from the table, and the key list the step
\* passed to batch_cleanup_data.
RemovedActors == DOMAIN actors \ DOMAIN actors'
BatchKeys == IF IsSome(last'.batch) THEN Unwrap(last'.batch) ELSE <<>>

\* C38: the keys of a batch_cleanup_data call are the keys of the actors
\* that left the table in the same poll, each once: no actor leaves the
\* table, in a poll or in any other step, without its key in the batch of
\* that step, no actor that stays has its key in a batch, no batch is made
\* of an empty list, and the batch in flight after a poll that made the
\* call is that call's.
C38_BatchIsTheRemoved ==
    [][ /\ SeqToSet(BatchKeys) = RemovedActors
        /\ Cardinality(RemovedActors) = Len(BatchKeys)
        /\ \A k \in DOMAIN actors' : k \notin SeqToSet(BatchKeys)
        /\ IsSome(last'.batch) =>
              /\ PollPassStep
              /\ BatchKeys # <<>>
              /\ cleanup_future = NoneOpt \/ ~last'.in_flight
              /\ cleanup_future' = Some("batch_cleanup_data")
        /\ ~IsSome(last'.batch) =>
              \/ cleanup_future' = cleanup_future
              \/ PollPassStep /\ ~last'.in_flight /\ cleanup_future' = NoneOpt
      ]_vars

\* A poll has removed an actor and passed its key to batch_cleanup_data
\* while another actor stayed in the table.
C38_Witness ==
    /\ last.op = "poll"
    /\ IsSome(last.batch)
    /\ Len(Unwrap(last.batch)) = 1
    /\ Unwrap(last.batch)[1] \notin DOMAIN actors
    /\ DOMAIN actors # {}
    /\ cleanup_future = Some("batch_cleanup_data")

\* C39: a failure record carries a ban only if its count has reached
\* peer_fail_threshold; a poll, whose sweep bans, leaves no record with such
\* a count unbanned; and from one step to the next the count of a record
\* that stays in failed_peers does not go down.
C39_BanOnlyAtThreshold ==
    /\ [](\A x \in DOMAIN failed_peers :
             IsSome(failed_peers[x].ban) => failed_peers[x].count >= Threshold)
    /\ [][ /\ KadPollStep =>
                 \A x \in DOMAIN failed_peers' :
                    failed_peers'[x].count >= Threshold =>
                       IsSome(failed_peers'[x].ban)
           /\ \A x \in DOMAIN failed_peers \cap DOMAIN failed_peers' :
                 failed_peers'[x].count >= failed_peers[x].count
         ]_kad_vars

\* With a threshold of 2: after the second timed-out discovery of p1 the
\* sweep has brought the count from 1 to 2 and banned the peer.
C39_Witness ==
    /\ klast.op = "poll"
    /\ Threshold = 2
    /\ "p1" \in DOMAIN failed_peers
    /\ failed_peers["p1"].count = 2
    /\ failed_peers["p1"].ban = Some(instant)
    /\ Len(outlets) = 2
    /\ SentErr(outlets[1].sent, "PeerTimedOut")
    /\ SentErr(outlets[2].sent, "PeerTimedOut")

\* The local hops the poll of this step replayed for particles whose
\* deadline had passed, by their position in the replay.
ExpiredHops ==
    { i \in 1 .. Len(last'.ingested) : DeadlinePassed(last'.ingested[i].particle, now) }

\* The ParticleExpired errors of those hops, in the order of the replay.
ExpiredHopErrors ==
    Flatten([i \in 1 .. Len(last'.ingested) |->
                IF i \in ExpiredHops
                THEN <<ParticleExpired(last'.ingested[i].particle.id)>>
                ELSE <<>>])

\* C40: a local hop replayed by poll for a particle whose deadline has
\* passed is answered ParticleExpired like a call from outside: it creates
\* no actor and lengthens no mailbox, and its error stands in the queue,
\* in the order of the replay, before every remote effect the poll
\* buffered; poll returns the first of those errors when there is one.
C40_ReingestChecksDeadline ==
    [][ PollPassStep =>
          /\ \A i \in ExpiredHops :
                LET call == last'.ingested[i]
                    key == ActorKey(call.particle.signature, call.peer_scope)
                IN  /\ call.outcome = "ParticleExpired"
                    /\ key \in DOMAIN actors' =>
                          /\ key \in DOMAIN actors
                          /\ Len(actors'[key].mailbox) <= Len(actors[key].mailbox)
          /\ Len(QueueProduced) >= Len(ExpiredHopErrors)
          /\ SubSeq(QueueProduced, 1, Len(ExpiredHopErrors)) = ExpiredHopErrors
          /\ \A j \in Len(ExpiredHopErrors) + 1 .. Len(QueueProduced) :
                QueueProduced[j].type = "RemoteRoutingEffects"
          /\ ExpiredHops # {} => last'.result = Some(ExpiredHopErrors[1])
      ]_vars

\* An execution ended after the deadline of its particle with the host and
\* a remote peer as next peers: the poll returned ParticleExpired for the
\* local hop and left the remote effect of the same particle in the queue.
C40_Witness ==
    /\ last.op = "poll"
    /\ Len(last.ingested) = 1
    /\ last.ingested[1].outcome = "ParticleExpired"
    /\ last.result = Some(ParticleExpired(last.ingested[1].particle.id))
    /\ Len(events) = 1
    /\ events[1].type = "RemoteRoutingEffects"
    /\ events[1].particle_id = last.ingested[1].particle.id
    /\ \A k \in DOMAIN actors : actors[k].mailbox = <<>>

====
